---- MODULE Spec2Model ----
(***************************************************************************)
(* Port/process correlation and safe termination engine of pports:         *)
(*   src/src/core/process_manager.py  (ProcessManager)                     *)
(*   src/src/core/port_scanner.py     (PortScanner)                        *)
(* The operating system (process table, socket table, signals) is the      *)
(* environment: every psutil call of the code is one atomic step, and the  *)
(* process table may change between two steps.                             *)
(*                                                                         *)
(* Strings whose letters matter (process names, deny-list entries,         *)
(* protocol names) are sequences of one-character strings, so that         *)
(* str.lower() and the substring test `a in b` are computed, not assumed.  *)
(***************************************************************************)
EXTENDS Integers, Sequences, FiniteSets, TLC

(* ------------------------------ bounds --------------------------------- *)
\* how many times the environment may give a PID to a new process
MaxGen == 1

(* ------------------------------ strings -------------------------------- *)
UpperChars == <<"A","B","C","D","E","F","G","H","I","J","K","L","M",
                "N","O","P","Q","R","S","T","U","V","W","X","Y","Z">>
LowerChars == <<"a","b","c","d","e","f","g","h","i","j","k","l","m",
                "n","o","p","q","r","s","t","u","v","w","x","y","z">>

\* str.lower() on one character
LowerChar(c) ==
    IF \E i \in 1..26 : UpperChars[i] = c
    THEN LowerChars[CHOOSE i \in 1..26 : UpperChars[i] = c]
    ELSE c

\* str.lower()
Lower(s) == [i \in 1..Len(s) |-> LowerChar(s[i])]

\* str.upper() on one character, and str.upper()
UpperChar(c) ==
    IF \E i \in 1..26 : LowerChars[i] = c
    THEN UpperChars[CHOOSE i \in 1..26 : LowerChars[i] = c]
    ELSE c
Upper(s) == [i \in 1..Len(s) |-> UpperChar(s[i])]

\* Python's `sub in s` on strings
Contains(s, sub) ==
    \E k \in 0..(Len(s) - Len(sub)) :
        \A i \in 1..Len(sub) : s[k + i] = sub[i]

S_tcp == <<"t","c","p">>
S_udp == <<"u","d","p">>
S_TCP == <<"T","C","P">>
S_UDP == <<"U","D","P">>
S_NetworkManager == <<"N","e","t","w","o","r","k","M","a","n","a","g","e","r">>
S_sshd == <<"s","s","h","d">>

(* --------------------- ProcessManager class constants ------------------ *)
\* ProcessManager.PROTECTED_PROCESSES
PROTECTED_PROCESSES == {
    <<"s","y","s","t","e","m","d">>,
    <<"k","e","r","n","e","l">>,
    <<"k","t","h","r","e","a","d","d">>,
    <<"k","s","o","f","t","i","r","q","d">>,
    <<"m","i","g","r","a","t","i","o","n">>,
    <<"r","c","u","_">>,
    <<"w","a","t","c","h","d","o","g">>,
    <<"s","y","s","t","e","m","d","-">>,
    <<"d","b","u","s">>,
    S_NetworkManager,
    S_sshd,
    <<"i","n","i","t">>,
    <<"s","w","a","p","p","e","r">>,
    <<"i","d","l","e">> }

\* ProcessManager.SYSTEM_PORTS
SYSTEM_PORTS == {22, 53, 80, 443, 25, 110, 143, 993, 995}

\* TerminationResult
TerminationResult ==
    {"SUCCESS", "NOT_FOUND", "ACCESS_DENIED", "TIMEOUT", "SYSTEM_PROCESS",
     "ERROR", "ALREADY_TERMINATED"}

\* default of the timeout parameter of terminate_process_by_pid
DefaultTimeout == 10

\* the PID tested by `if pid == 1`, and the parent PID tested by `ppid() == 2`
InitPid == 1
KthreaddPid == 2

(* ----------------------- exceptions of psutil -------------------------- *)
\* psutil.ZombieProcess is a subclass of psutil.NoSuchProcess; every
\* exception here is a subclass of Exception.
IsInstance(exc, cls) ==
    \/ exc = cls
    \/ cls = "Exception"
    \/ (exc = "ZombieProcess" /\ cls = "NoSuchProcess")

\* a call's result: a value, or the exception it raised
Ok(v) == [exc |-> "none", val |-> v]
Raise(e) == [exc |-> e, val |-> <<>>]

(* ------------------- the operating system (environment) ---------------- *)
\* PIDs of the model: the init process and one ordinary PID
Pids == {InitPid, 3}
UserPids == Pids \ {InitPid}

\* psutil's None for the pid of a socket that the OS attributes to nobody
NoPid == 0

\* a socket as psutil.net_connections reports it (sconn)
Sock(port, type, status, pid) ==
    [laddr |-> TRUE, port |-> port, type |-> type, status |-> status, pid |-> pid]

\* an entry of the process table.  acc: "full" (metadata readable, signals
\* allowed), "nosignal" (another user's process: readable, signals denied),
\* "hidden" (metadata reads denied as well)
NoProc == [st |-> "absent"]
Proc(name, ppid, acc) ==
    [st |-> "running", name |-> name, ppid |-> ppid, acc |-> acc]

\* the programs the environment may run under an ordinary PID, each with the
\* sockets it binds: <<name, ppid, acc, sockets as <<port, type, status>> >>
Profiles == {
    [name |-> <<"n","o","d","e">>, ppid |-> 1, acc |-> "full",
     binds |-> << <<8080, "SOCK_STREAM", "LISTEN">>, <<8080, "SOCK_STREAM", "LISTEN">> >>],
    [name |-> <<"n","g","i","n","x">>, ppid |-> 1, acc |-> "full",
     binds |-> << <<80, "SOCK_STREAM", "LISTEN">>, <<8080, "SOCK_STREAM", "LISTEN">> >>],
    [name |-> S_sshd, ppid |-> 1, acc |-> "nosignal",
     binds |-> << <<22, "SOCK_STREAM", "LISTEN">> >>],
    [name |-> <<"p","o","s","t","g","r","e","s">>, ppid |-> 1, acc |-> "nosignal",
     binds |-> << <<8080, "SOCK_DGRAM", "NONE">> >>],
    [name |-> <<"k","w","o","r","k","e","r">>, ppid |-> KthreaddPid, acc |-> "full",
     binds |-> << >>],
    [name |-> <<"m","y","s","q","l","d">>, ppid |-> 1, acc |-> "hidden",
     binds |-> << <<8080, "SOCK_STREAM", "ESTABLISHED">> >>] }

\* what may run as PID 1
InitProfiles == {
    [name |-> <<"s","y","s","t","e","m","d">>, ppid |-> 0, acc |-> "nosignal",
     binds |-> << <<8080, "SOCK_STREAM", "LISTEN">> >>],
    [name |-> <<"b","a","s","h">>, ppid |-> 0, acc |-> "full", binds |-> << >>],
    [name |-> <<"l","a","u","n","c","h","d">>, ppid |-> 0, acc |-> "hidden",
     binds |-> << >>] }

ProcOf(prof) == Proc(prof.name, prof.ppid, prof.acc)
SocksOf(prof, pid) ==
    [i \in 1..Len(prof.binds) |->
        Sock(prof.binds[i][1], prof.binds[i][2], prof.binds[i][3], pid)]

\* a connection left in TIME_WAIT by a process that is gone: no owner PID
OrphanSock == Sock(8080, "SOCK_STREAM", "TIME_WAIT", NoPid)

VARIABLES
    procs,   \* OS process table: Pids -> process entry or NoProc
    gens,    \* per PID, how many processes have been given it since Init
    socks,   \* OS socket table, in enumeration order
    allow,   \* ProcessManager.allow_system_ports
    pc,      \* position of the running operation, "idle" when none runs
    call,    \* the arguments of the running top-level operation
    frame,   \* locals of the innermost terminate_process_by_pid activation
    prot,    \* the Process object of the running is_process_protected
    loop,    \* locals of terminate_process_by_port's loop
    ret,     \* the value the finished operation returned
    trace,   \* the OS calls the running operation has made, with results
    exited,  \* history: the PIDs whose latest process has exited
    gui      \* the window, its scan threads and its event queue; NoGui outside it

vars == <<procs, gens, socks, allow, pc, call, frame, prot, loop, ret, trace, exited,
          gui>>

RECURSIVE WithoutPid(_, _)
WithoutPid(s, pid) ==
    IF s = << >> THEN << >>
    ELSE IF Head(s).pid = pid THEN WithoutPid(Tail(s), pid)
    ELSE <<Head(s)>> \o WithoutPid(Tail(s), pid)

\* a process is identified by (pid, creation time): psutil keeps both in a
\* Process object and compares them in is_running()
SameProcess(pid, gen) == procs[pid] # NoProc /\ gens[pid] = gen

OwnsSystemPort(pid) ==
    \E i \in 1..Len(socks) : socks[i].pid = pid /\ socks[i].port \in SYSTEM_PORTS

\* psutil.Process(pid): raises NoSuchProcess when the PID is not in the table
OpenResult(pid) ==
    IF procs[pid] = NoProc THEN Raise("NoSuchProcess") ELSE Ok(gens[pid])

\* Process.name(): read from the table entry the PID has now
NameResults(pid) ==
    (IF procs[pid] = NoProc THEN {Raise("NoSuchProcess")}
     ELSE IF procs[pid].acc = "hidden" THEN {Raise("AccessDenied")}
     ELSE IF procs[pid].st = "zombie"
          THEN {Ok(procs[pid].name), Raise("ZombieProcess")}
     ELSE {Ok(procs[pid].name)})
    \cup {Raise("OSError")}

\* Process.ppid(): newer psutil raise NoSuchProcess when the PID was reused,
\* older ones read the new process
PpidResults(pid, gen) ==
    (IF procs[pid] = NoProc THEN {Raise("NoSuchProcess")}
     ELSE IF procs[pid].acc = "hidden" THEN {Raise("AccessDenied")}
     ELSE {Ok(procs[pid].ppid)}
          \cup (IF gens[pid] # gen THEN {Raise("NoSuchProcess")} ELSE {})
          \cup (IF procs[pid].st = "zombie" THEN {Raise("ZombieProcess")} ELSE {}))
    \cup {Raise("OSError")}

\* Process.terminate() / Process.kill()
SignalResults(pid, gen) ==
    (IF ~SameProcess(pid, gen) THEN {Raise("NoSuchProcess")}
     ELSE IF procs[pid].acc # "full" THEN {Raise("AccessDenied")}
     ELSE {Ok("sent")})
    \cup {Raise("OSError")}

\* Process.wait(timeout): ValueError for a negative timeout; returns once the
\* process is gone, raises TimeoutExpired while it is still there; when the
\* PID was given to a new process, polling the PID sees the new one
WaitResults(pid, gen, timeout) ==
    IF timeout < 0 THEN {Raise("ValueError")}
    ELSE (IF procs[pid] = NoProc THEN {Ok("exited")}
          ELSE IF gens[pid] = gen THEN {Raise("TimeoutExpired")}
          ELSE {Ok("exited"), Raise("TimeoutExpired")})
         \cup {Raise("AccessDenied"), Raise("OSError")}

\* what psutil.net_connections may be allowed to enumerate
NetAccess == {"inet", "tcp", "denied"}

(* --------------------------- PortScanner ------------------------------- *)
\* the mapping looked up without a default
StatusMapping_NoDefault(status) == status

\* PortScanner._status_mapping with its default: the ten TCP states map to
\* themselves, every other psutil status (CONN_NONE, ...) to UNKNOWN
StatusMapping(status) ==
    IF status \in {"LISTEN", "ESTABLISHED", "CLOSE_WAIT", "TIME_WAIT", "SYN_SENT",
                   "SYN_RECV", "FIN_WAIT1", "FIN_WAIT2", "CLOSING", "LAST_ACK"}
    THEN status ELSE "UNKNOWN"

\* Python's None for an absent process name
NoName == << >>
\* f"PID:{pid} (недоступен)"
UnavailableName(pid) == <<"P","I","D",":", ToString(pid), " ", "(unavailable)">>

\* psutil.Process(pid) and the reads of lines 197-204 (name, exe, cmdline,
\* username, create_time) for the entry the process table holds when the
\* metadata is fetched, which may be later than the socket enumeration: the
\* process may be gone, unreadable, or a zombie, whose reads succeed or raise
\* ZombieProcess (zombie_raises) as the platform has it
MetadataResult(pid, zombie_raises) ==
    IF procs[pid] = NoProc THEN Raise("NoSuchProcess")
    ELSE IF procs[pid].acc = "hidden" THEN Raise("AccessDenied")
    ELSE IF procs[pid].st = "zombie" /\ zombie_raises THEN Raise("ZombieProcess")
    ELSE Ok(procs[pid].name)

\* _get_process_info with no except clause: the error goes to the caller
ProcessInfoHandled_Nothing(exc) == FALSE

\* except (psutil.NoSuchProcess, psutil.AccessDenied, psutil.ZombieProcess)
ProcessInfoHandled(exc) ==
    \/ IsInstance(exc, "NoSuchProcess")
    \/ IsInstance(exc, "AccessDenied")
    \/ IsInstance(exc, "ZombieProcess")

\* PortScanner._get_process_info: pid, process_name and, standing for the
\* four other optional fields, process_exe ("None" when empty)
GetProcessInfo(pid, zombie_raises) ==
    IF pid = NoPid
    THEN Ok([pid |-> NoPid, process_name |-> NoName, process_exe |-> "None"])
    ELSE LET r == MetadataResult(pid, zombie_raises) IN
         IF r.exc = "none"
         THEN Ok([pid |-> pid, process_name |-> r.val, process_exe |-> "exe"])
         ELSE IF ProcessInfoHandled(r.exc)
         THEN Ok([pid |-> pid, process_name |-> UnavailableName(pid),
                  process_exe |-> "None"])
         ELSE Raise(r.exc)

\* _process_connection returning None
NoView == [port |-> 0]
\* PortScanner._process_connection
ProcessConnection(conn, zombie_raises) ==
    IF ~conn.laddr THEN Ok(NoView)
    ELSE LET process_info == GetProcessInfo(conn.pid, zombie_raises) IN
         IF process_info.exc # "none" THEN Raise(process_info.exc)
         ELSE Ok([port |-> conn.port,
                  protocol |-> IF conn.type = "SOCK_STREAM" THEN S_TCP ELSE S_UDP,
                  status |-> StatusMapping(conn.status),
                  pid |-> process_info.val.pid,
                  process_name |-> process_info.val.process_name,
                  process_exe |-> process_info.val.process_exe])

\* the sort key (x.protocol, x.port): 'TCP' < 'UDP' as strings
KeyLE(a, b) ==
    LET ra == IF a.protocol = S_TCP THEN 0 ELSE 1
        rb == IF b.protocol = S_TCP THEN 0 ELSE 1
    IN  ra < rb \/ (ra = rb /\ a.port <= b.port)

\* a sort that puts an element before the earlier ones of equal key
InsertStable_Before(t, x) ==
    LET n == Cardinality({i \in 1..Len(t) : KeyLE(t[i], x) /\ ~KeyLE(x, t[i])})
    IN  SubSeq(t, 1, n) \o <<x>> \o SubSeq(t, n + 1, Len(t))

\* sorted(): stable, an element goes behind the earlier ones of equal key
InsertStable(t, x) ==
    LET n == Cardinality({i \in 1..Len(t) : KeyLE(t[i], x)})
    IN  SubSeq(t, 1, n) \o <<x>> \o SubSeq(t, n + 1, Len(t))

RECURSIVE SortedViews(_)
SortedViews(s) ==
    IF s = << >> THEN << >>
    ELSE InsertStable(SortedViews(SubSeq(s, 1, Len(s) - 1)), s[Len(s)])

\* the loop of scan_all_ports: a connection without local address gives no
\* view, and one whose processing raised a process error is skipped (line 86)
RECURSIVE CollectViews(_, _)
CollectViews(conns, zombie_raises) ==
    IF conns = << >> THEN << >>
    ELSE LET r == ProcessConnection(Head(conns), zombie_raises)
         IN  (IF r.exc # "none" \/ r.val = NoView THEN << >> ELSE <<r.val>>)
             \o CollectViews(Tail(conns), zombie_raises)

\* psutil's sconn for a socket of the OS table: the status of a socket that
\* is not a TCP socket is always CONN_NONE, whatever the kernel holds for it
Sconn(sock) ==
    [sock EXCEPT !.status = IF sock.type = "SOCK_STREAM" THEN @ ELSE "NONE"]

RECURSIVE OnlyStream(_)
OnlyStream(conns) ==
    IF conns = << >> THEN << >>
    ELSE (IF Head(conns).type = "SOCK_STREAM" THEN <<Head(conns)>> ELSE << >>)
         \o OnlyStream(Tail(conns))

\* a scan that gives up when the full enumeration is denied
NetConnections_NoFallback(access) ==
    IF access = "inet" THEN [i \in DOMAIN socks |-> Sconn(socks[i])] ELSE << >>

\* psutil.net_connections(kind='inet'), then kind='tcp' when that is denied
NetConnections(access) ==
    LET connections == [i \in DOMAIN socks |-> Sconn(socks[i])]
    IN  IF access = "inet" THEN connections
        ELSE IF access = "tcp" THEN OnlyStream(connections)
        ELSE << >>

\* the psutil.net_connections calls that scan_all_ports makes, with results
NetCalls(access) ==
    IF access = "inet" THEN << <<"inet", "ok">> >>
    ELSE IF access = "tcp" THEN << <<"inet", "AccessDenied">>, <<"tcp", "ok">> >>
    ELSE << <<"inet", "AccessDenied">>, <<"tcp", "AccessDenied">> >>

\* PortScanner.scan_all_ports
ScanAllPorts(access, zombie_raises) ==
    SortedViews(CollectViews(NetConnections(access), zombie_raises))

\* a scan_listening_ports that filters nothing
ScanListeningPorts_All(access, zombie_raises) == ScanAllPorts(access, zombie_raises)

\* PortScanner.scan_listening_ports
ScanListeningPorts(access, zombie_raises) ==
    SelectSeq(ScanAllPorts(access, zombie_raises), LAMBDA port : port.status = "LISTEN")

\* a scan_port_range whose upper bound is exclusive
ScanPortRange_Exclusive(start_port, end_port, protocol, access, zombie_raises) ==
    SelectSeq(ScanAllPorts(access, zombie_raises),
              LAMBDA port : /\ start_port <= port.port /\ port.port < end_port
                            /\ Lower(port.protocol) = Lower(protocol))

\* PortScanner.scan_port_range
ScanPortRange(start_port, end_port, protocol, access, zombie_raises) ==
    SelectSeq(ScanAllPorts(access, zombie_raises),
              LAMBDA port : /\ start_port <= port.port /\ port.port <= end_port
                            /\ Lower(port.protocol) = Lower(protocol))

\* find_port_by_number without its protocol filter
FilterPort_AnyProtocol(views, port_number, protocol) ==
    SelectSeq(views, LAMBDA v : v.port = port_number)

\* find_port_by_number comparing the protocol as given, letter case and all
FilterPort_CaseSensitive(views, port_number, protocol) ==
    SelectSeq(views, LAMBDA v : v.port = port_number
                                /\ (protocol # << >> => v.protocol = protocol))

RECURSIVE FilterPort(_, _, _)
FilterPort(views, port_number, protocol) ==
    IF views = << >> THEN << >>
    ELSE LET v == Head(views)
             keep == /\ v.port = port_number
                     /\ (protocol # << >> => Lower(v.protocol) = Lower(protocol))
         IN  (IF keep THEN <<v>> ELSE << >>)
             \o FilterPort(Tail(views), port_number, protocol)

\* PortScanner.find_port_by_number
FindPortByNumber(port_number, protocol, access, zombie_raises) ==
    FilterPort(ScanAllPorts(access, zombie_raises), port_number, protocol)

(* -------------------------- ProcessManager ----------------------------- *)
\* is_process_protected, the name rule: `protected in process_name` for some
\* entry of PROTECTED_PROCESSES, process_name being process.name().lower()
NameIsProtected(process_name) ==
    \E protected \in PROTECTED_PROCESSES : Contains(process_name, protected)

\* the policy failing open: the outer handler does not return True
ProtectedOnError_FailOpen(exc) == FALSE

\* is_process_protected, the outer handler: except (NoSuchProcess, AccessDenied)
\* returns True; anything else propagates to the caller
ProtectedOnError(exc) ==
    IsInstance(exc, "NoSuchProcess") \/ IsInstance(exc, "AccessDenied")

\* is_process_protected, the handler around process.ppid(): pass
PpidErrorPassed(exc) ==
    IsInstance(exc, "NoSuchProcess") \/ IsInstance(exc, "AccessDenied")

\* is_process_protected between name() and ppid(): the verdict when the rules
\* on the name and on the PID decide, "ppid" when the parent must be read
VerdictAfterName(pid, name) ==
    IF NameIsProtected(Lower(name)) THEN "True"
    ELSE IF pid = InitPid THEN "True"
    ELSE "ppid"

\* a policy without the rule on the parent
VerdictAfterPpid_Never(ppid) == FALSE

\* is_process_protected, `process.ppid() == 2`
VerdictAfterPpid(ppid) == ppid = KthreaddPid

\* ProcessTerminationInfo: the message is kept as the signal it names, and
\* duration has its default 0.0
Info(pid, name, result, signal_used) ==
    [pid |-> pid, name |-> name, result |-> result, signal_used |-> signal_used,
     duration |-> 0]

\* an activation that goes on measuring from the start of its caller
AttemptStart_Outer(outer, now) == IF outer >= 0 THEN outer ELSE now

\* start_time = time.time() at the entry of an activation, `outer` being the
\* start_time of the activation that called it (-1 when none did); time is
\* counted in the OS calls the operation has made
AttemptStart(outer, now) == now

\* a liveness check that never stops the call
AlreadyTerminated_Never(running) == FALSE

\* `if not process.is_running()`
AlreadyTerminated(running) == ~running

\* the handlers without the final `except Exception`
Classify_NoCatchAll(exc) ==
    IF IsInstance(exc, "NoSuchProcess") THEN "NOT_FOUND"
    ELSE IF IsInstance(exc, "AccessDenied") THEN "ACCESS_DENIED"
    ELSE "RAISED"

\* the handlers with `except Exception` placed first
Classify_CatchAllFirst(exc) == "ERROR"

\* the handlers with the one for AccessDenied left out
Classify_DeniedIsError(exc) ==
    IF IsInstance(exc, "NoSuchProcess") THEN "NOT_FOUND"
    ELSE IF IsInstance(exc, "Exception") THEN "ERROR"
    ELSE "RAISED"

\* the except clauses of terminate_process_by_pid, in their order
Classify(exc) ==
    IF IsInstance(exc, "NoSuchProcess") THEN "NOT_FOUND"
    ELSE IF IsInstance(exc, "AccessDenied") THEN "ACCESS_DENIED"
    ELSE IF IsInstance(exc, "Exception") THEN "ERROR"
    ELSE "RAISED"

HandlerName(exc) ==
    IF IsInstance(exc, "NoSuchProcess") THEN <<"Neizvesten">>
    ELSE IF IsInstance(exc, "AccessDenied") THEN <<"Nedostupen">>
    ELSE <<"Oshibka">>

HandlerInfo(pid, exc) == Info(pid, HandlerName(exc), Classify(exc), "none")

\* an attempt that starts with the graceful signal whatever force says
SignalFor_AlwaysGraceful(force) == "SIGTERM"

\* `if force: process.kill() else: process.terminate()`
SignalFor(force) == IF force THEN "SIGKILL" ELSE "SIGTERM"

\* escalating whatever the value of force
EscalatesOnTimeout_Always(force) == TRUE

\* except psutil.TimeoutExpired: escalate when not forced, else TIMEOUT
EscalatesOnTimeout(force) == ~force

\* the recursive call given the timeout unchanged
Halve_Keep(timeout) == timeout

\* half the timeout rounded up
Halve_RoundUp(timeout) == (timeout + 1) \div 2

\* timeout // 2
Halve(timeout) == timeout \div 2

\* the guard without the opt-in, and no guard at all
SystemPortBlocked_NoOptIn(port, allow_system_ports) == port \in SYSTEM_PORTS
SystemPortBlocked_Never(port, allow_system_ports) == FALSE

\* terminate_process_by_port, the guard on system ports
SystemPortBlocked(port, allow_system_ports) ==
    port \in SYSTEM_PORTS /\ ~allow_system_ports

(* ------------------------------ state ---------------------------------- *)
NoCall == [op |-> "none"]
NoFrame == [pid |-> NoPid, force |-> FALSE, timeout |-> 0, gen |-> 0,
            name |-> NoName, d |-> 0, signal_used |-> "none", start_time |-> -1,
            gone |-> FALSE]
NoProt == [pid |-> NoPid, gen |-> 0, process_name |-> NoName]
NoLoop == [idx |-> 0]
\* no window is open
NoGui == [open |-> FALSE]
\* what an operation returned: a ProcessTerminationInfo, a list of them, a
\* bool, or an exception that left the operation
NoRet == [kind |-> "none"]
RetInfo(info) == [kind |-> "info", info |-> info]
RetList(list) == [kind |-> "list", list |-> list]
RetBool(b) == [kind |-> "bool", val |-> b]
RetRaise(exc) == [kind |-> "raised", exc |-> exc]

\* the arguments the callers of the model pass
ForceArgs == BOOLEAN
TimeoutArgs == {-1, 3, DefaultTimeout}
PortArgs == SYSTEM_PORTS \cup {8080, 9000}
ProtocolArgs == {S_tcp, S_UDP}

\* one entry of trace: the OS call `op` on `pid` in attempt `d` of the running
\* terminate_process_by_pid, its result, and for a signal that was sent
\* whether the PID then owned a socket on a system port
Ev(op, pid, d, res) ==
    [op |-> op, pid |-> pid, d |-> d, res |-> res,
     sys |-> op \in {"SIGTERM", "SIGKILL"} /\ res = "ok" /\ OwnsSystemPort(pid)]

InitialSocks(pt) ==
    LET of(pid) == IF pt[pid] = NoProc THEN << >>
                   ELSE LET prof == CHOOSE q \in Profiles \cup InitProfiles :
                                        ProcOf(q) = pt[pid]
                        IN  SocksOf(prof, pid)
    IN  of(InitPid) \o of(3)

Idle ==
    /\ pc = "idle" /\ call = NoCall /\ frame = NoFrame /\ prot = NoProt
    /\ loop = NoLoop /\ ret = NoRet /\ trace = << >>
    /\ gui = NoGui

\* the process tables the operations may find when they start
ProcessTables ==
    {pt \in [Pids -> {NoProc} \cup {ProcOf(q) : q \in Profiles \cup InitProfiles}] :
        /\ pt[InitPid] \in {NoProc} \cup {ProcOf(q) : q \in InitProfiles}
        /\ \A pid \in UserPids : pt[pid] \in {NoProc} \cup {ProcOf(q) : q \in Profiles}}

\* a ProcessManager() of the default construction, over any process table
Init ==
    /\ procs \in ProcessTables
    /\ gens = [pid \in Pids |-> 0]
    /\ socks = InitialSocks(procs)
    /\ allow = FALSE
    /\ exited = {}
    /\ Idle

\* a ProcessManager(allow_system_ports) of either construction; the socket
\* table may hold a connection without owner; PID 1, when there, is the one
\* init that binds a socket
InitPort ==
    /\ procs \in ProcessTables
    /\ procs[InitPid] \in {NoProc} \cup {ProcOf(q) : q \in {i \in InitProfiles : i.binds # << >>}}
    /\ gens = [pid \in Pids |-> 0]
    /\ \E orphan \in {<< >>, <<OrphanSock>>} : socks = orphan \o InitialSocks(procs)
    /\ allow \in BOOLEAN
    /\ exited = {}
    /\ Idle

(* --------------------------- environment ------------------------------- *)
\* a process exits: it stays in the table as a zombie until its parent reaps
\* it, or leaves the table at once; its sockets are closed
Exit(pid) ==
    /\ pid \in UserPids
    /\ procs[pid] # NoProc /\ procs[pid].st = "running"
    /\ \E reaped \in BOOLEAN :
        procs' = [procs EXCEPT ![pid] =
                     IF reaped THEN NoProc ELSE [procs[pid] EXCEPT !.st = "zombie"]]
    /\ socks' = WithoutPid(socks, pid)
    /\ exited' = exited \cup {pid}
    /\ UNCHANGED <<gens, allow, pc, call, frame, prot, loop, ret, trace, gui>>

Reap(pid) ==
    /\ pid \in UserPids
    /\ procs[pid] # NoProc /\ procs[pid].st = "zombie"
    /\ procs' = [procs EXCEPT ![pid] = NoProc]
    /\ UNCHANGED <<gens, socks, allow, pc, call, frame, prot, loop, ret, trace, exited, gui>>

\* the OS gives a free PID to a new process (PID reuse), which binds its sockets
Spawn(pid, prof) ==
    /\ pid \in UserPids /\ prof \in Profiles
    /\ procs[pid] = NoProc /\ gens[pid] < MaxGen
    /\ procs' = [procs EXCEPT ![pid] = ProcOf(prof)]
    /\ gens' = [gens EXCEPT ![pid] = @ + 1]
    /\ socks' = socks \o SocksOf(prof, pid)
    /\ exited' = exited \ {pid}
    /\ UNCHANGED <<allow, pc, call, frame, prot, loop, ret, trace, gui>>

(* ----------------- terminate_process_by_pid, step by step -------------- *)
\* a loop of terminate_process_by_port that gives up at the first outcome
\* other than SUCCESS
Finish_StopsOnFailure(op, info, tr) ==
    /\ frame' = NoFrame /\ trace' = tr
    /\ IF op = "byPort"
       THEN /\ pc' = "loop"
            /\ loop' = [loop EXCEPT !.results = Append(@, info),
                                    !.idx = IF info.result = "SUCCESS" THEN @ + 1
                                            ELSE Len(loop.views) + 1]
            /\ ret' = ret
       ELSE /\ pc' = "done" /\ ret' = RetInfo(info) /\ loop' = loop

\* `return ProcessTerminationInfo(...)` of the activation for operation `op`:
\* to the caller, or into the results of terminate_process_by_port's loop
Finish(op, info, tr) ==
    /\ frame' = NoFrame /\ trace' = tr
    /\ IF op = "byPort"
       THEN /\ pc' = "loop"
            /\ loop' = [loop EXCEPT !.results = Append(@, info), !.idx = @ + 1]
            /\ ret' = ret
       ELSE /\ pc' = "done" /\ ret' = RetInfo(info) /\ loop' = loop

\* entry of terminate_process_by_pid: start_time, then psutil.Process(pid);
\* the frame keeps, beside the locals, whether the process under the PID had
\* exited when the activation began
Enter(op, pid, force, timeout, d, tr) ==
    LET r == OpenResult(pid)
        tr2 == Append(tr, Ev("Process", pid, d, IF r.exc = "none" THEN "ok" ELSE r.exc))
    IN  IF r.exc # "none"
        THEN prot' = prot /\ Finish(op, HandlerInfo(pid, r.exc), tr2)
        ELSE /\ frame' = [pid |-> pid, force |-> force, timeout |-> timeout,
                          gen |-> r.val, name |-> NoName, d |-> d,
                          signal_used |-> "none",
                          start_time |-> AttemptStart(frame.start_time, Len(tr)),
                          gone |-> pid \in exited]
             /\ pc' = "name" /\ trace' = tr2
             /\ UNCHANGED <<prot, loop, ret>>

\* a caller invokes terminate_process_by_pid(pid, force, timeout); call keeps,
\* with the arguments, what the process table held for the PID at that time
StartByPid(pid, force, timeout) ==
    /\ pc = "idle"
    /\ call' = [op |-> "byPid", pid |-> pid, force |-> force, timeout |-> timeout,
                st |-> procs[pid].st, exited |-> pid \in exited]
    /\ Enter("byPid", pid, force, timeout, 1, << >>)
    /\ UNCHANGED <<procs, gens, socks, allow, exited, gui>>

\* the recursive call of the escalation: psutil.Process(pid) again
Reopen ==
    /\ pc = "open"
    /\ Enter(call.op, frame.pid, frame.force, frame.timeout, frame.d, trace)
    /\ UNCHANGED <<procs, gens, socks, allow, exited, call, gui>>

\* process_name = process.name()
ReadName ==
    /\ pc = "name"
    /\ \E r \in NameResults(frame.pid) :
        LET tr == Append(trace, Ev("name", frame.pid, frame.d,
                                   IF r.exc = "none" THEN "ok" ELSE r.exc))
        IN  IF r.exc = "none"
            THEN /\ frame' = [frame EXCEPT !.name = r.val]
                 /\ pc' = "p_open" /\ trace' = tr
                 /\ UNCHANGED <<prot, loop, ret>>
            ELSE prot' = prot /\ Finish(call.op, HandlerInfo(frame.pid, r.exc), tr)
    /\ UNCHANGED <<procs, gens, socks, allow, exited, call, gui>>

(* ------------------- is_process_protected, step by step ---------------- *)
\* a forced call going on although the policy said protected
ProtReturn_ForceOverrides(op, pr, d, verdict, tr) ==
    LET tr2 == Append(tr, Ev("is_process_protected", pr.pid, d,
                             IF verdict THEN "True" ELSE "False"))
    IN  IF op = "isProtected"
        THEN /\ pc' = "done" /\ ret' = RetBool(verdict) /\ trace' = tr2
             /\ prot' = pr
             /\ UNCHANGED <<frame, loop>>
        ELSE /\ prot' = NoProt
             /\ IF verdict /\ ~frame.force
                THEN Finish(op, Info(frame.pid, frame.name, "SYSTEM_PROCESS", "none"), tr2)
                ELSE /\ pc' = "liveness" /\ trace' = tr2
                     /\ UNCHANGED <<frame, loop, ret>>

\* `return verdict` of is_process_protected, its locals being pr: to the
\* caller of the policy, or to `if self.is_process_protected(pid)` in
\* terminate_process_by_pid, which returns SYSTEM_PROCESS or goes on
ProtReturn(op, pr, d, verdict, tr) ==
    LET tr2 == Append(tr, Ev("is_process_protected", pr.pid, d,
                             IF verdict THEN "True" ELSE "False"))
    IN  IF op = "isProtected"
        THEN /\ pc' = "done" /\ ret' = RetBool(verdict) /\ trace' = tr2
             /\ prot' = pr
             /\ UNCHANGED <<frame, loop>>
        ELSE /\ prot' = NoProt
             /\ IF verdict
                THEN Finish(op, Info(frame.pid, frame.name, "SYSTEM_PROCESS", "none"), tr2)
                ELSE /\ pc' = "liveness" /\ trace' = tr2
                     /\ UNCHANGED <<frame, loop, ret>>

\* an exception of a call made by is_process_protected outside the inner try
ProtFail(op, pr, d, exc, tr) ==
    IF ProtectedOnError(exc) THEN ProtReturn(op, pr, d, TRUE, tr)
    ELSE IF op = "isProtected"
    THEN /\ pc' = "done" /\ ret' = RetRaise(exc) /\ trace' = tr /\ prot' = pr
         /\ UNCHANGED <<frame, loop>>
    ELSE prot' = NoProt /\ Finish(op, HandlerInfo(pr.pid, exc), tr)

\* process = psutil.Process(pid) in is_process_protected
ProtEnter(op, pid, d, tr) ==
    LET r == OpenResult(pid)
        tr2 == Append(tr, Ev("p.Process", pid, d, IF r.exc = "none" THEN "ok" ELSE r.exc))
    IN  IF r.exc # "none"
        THEN ProtFail(op, [NoProt EXCEPT !.pid = pid], d, r.exc, tr2)
        ELSE /\ prot' = [pid |-> pid, gen |-> r.val, process_name |-> NoName]
             /\ pc' = "p_name" /\ trace' = tr2
             /\ UNCHANGED <<frame, loop, ret>>

\* a caller invokes is_process_protected(pid)
StartIsProtected(pid) ==
    /\ pc = "idle"
    /\ call' = [op |-> "isProtected", pid |-> pid, st |-> procs[pid].st]
    /\ ProtEnter("isProtected", pid, 0, << >>)
    /\ UNCHANGED <<procs, gens, socks, allow, exited, gui>>

\* `if self.is_process_protected(pid)` reached in terminate_process_by_pid
ProtOpen ==
    /\ pc = "p_open"
    /\ ProtEnter(call.op, frame.pid, frame.d, trace)
    /\ UNCHANGED <<procs, gens, socks, allow, exited, call, gui>>

\* process_name = process.name().lower(), the deny-list loop and `pid == 1`
ProtName ==
    /\ pc = "p_name"
    /\ LET d == IF call.op = "isProtected" THEN 0 ELSE frame.d IN
       \E r \in NameResults(prot.pid) :
        LET tr == Append(trace, Ev("p.name", prot.pid, d,
                                   IF r.exc = "none" THEN "ok" ELSE r.exc))
            pr == [prot EXCEPT !.process_name = Lower(r.val)]
        IN  IF r.exc # "none" THEN ProtFail(call.op, prot, d, r.exc, tr)
            ELSE IF VerdictAfterName(prot.pid, r.val) = "True"
            THEN ProtReturn(call.op, pr, d, TRUE, tr)
            ELSE /\ pc' = "p_ppid" /\ trace' = tr /\ prot' = pr
                 /\ UNCHANGED <<frame, loop, ret>>
    /\ UNCHANGED <<procs, gens, socks, allow, exited, call, gui>>

\* `if process.ppid() == 2` inside its own try, then `return False`
ProtPpid ==
    /\ pc = "p_ppid"
    /\ LET d == IF call.op = "isProtected" THEN 0 ELSE frame.d IN
       \E r \in PpidResults(prot.pid, prot.gen) :
        LET tr == Append(trace, Ev("p.ppid", prot.pid, d,
                                   IF r.exc = "none" THEN "ok" ELSE r.exc))
        IN  IF r.exc = "none"
            THEN ProtReturn(call.op, prot, d, VerdictAfterPpid(r.val), tr)
            ELSE IF PpidErrorPassed(r.exc)
            THEN ProtReturn(call.op, prot, d, FALSE, tr)
            ELSE ProtFail(call.op, prot, d, r.exc, tr)
    /\ UNCHANGED <<procs, gens, socks, allow, exited, call, gui>>

(* ------------- terminate_process_by_pid, after the policy -------------- *)
\* `if not process.is_running()`
Liveness ==
    /\ pc = "liveness"
    /\ LET running == SameProcess(frame.pid, frame.gen)
           tr == Append(trace, Ev("is_running", frame.pid, frame.d,
                                  IF running THEN "True" ELSE "False"))
       IN  IF AlreadyTerminated(running)
           THEN /\ prot' = prot
                /\ Finish(call.op, Info(frame.pid, frame.name, "ALREADY_TERMINATED",
                                        "none"), tr)
           ELSE /\ pc' = "signal" /\ trace' = tr
                /\ UNCHANGED <<frame, prot, loop, ret>>
    /\ UNCHANGED <<procs, gens, socks, allow, exited, call, gui>>

\* process.kill() or process.terminate()
Signal ==
    /\ pc = "signal"
    /\ LET sig == SignalFor(frame.force) IN
       \E r \in SignalResults(frame.pid, frame.gen) :
        LET tr == Append(trace, Ev(sig, frame.pid, frame.d,
                                   IF r.exc = "none" THEN "ok" ELSE r.exc))
        IN  IF r.exc = "none"
            THEN /\ frame' = [frame EXCEPT !.signal_used = sig]
                 /\ pc' = "wait" /\ trace' = tr
                 /\ UNCHANGED <<prot, loop, ret>>
            ELSE prot' = prot /\ Finish(call.op, HandlerInfo(frame.pid, r.exc), tr)
    /\ UNCHANGED <<procs, gens, socks, allow, exited, call, gui>>

\* a handler of TimeoutExpired that sends the forced signal to the process
\* object it holds
EscalationEntry_AtSignal == "signal"

\* `return self.terminate_process_by_pid(pid, force=True, ...)`: the forced
\* attempt is a new activation and begins at psutil.Process(pid)
EscalationEntry == "open"

\* process.wait(timeout=timeout) and what follows it
Wait ==
    /\ pc = "wait"
    /\ \E r \in WaitResults(frame.pid, frame.gen, frame.timeout) :
        LET tr == Append(trace, Ev("wait", frame.pid, frame.d,
                                   IF r.exc = "none" THEN "exited" ELSE r.exc))
        IN  IF r.exc = "TimeoutExpired" /\ EscalatesOnTimeout(frame.force)
            THEN /\ frame' = [frame EXCEPT !.force = TRUE,
                                           !.timeout = Halve(frame.timeout),
                                           !.d = @ + 1]
                 /\ pc' = EscalationEntry /\ trace' = tr
                 /\ UNCHANGED <<loop, ret>>
            ELSE Finish(call.op,
                        IF r.exc = "none"
                        THEN [Info(frame.pid, frame.name, "SUCCESS", frame.signal_used)
                                 EXCEPT !.duration = Len(tr) - frame.start_time]
                        ELSE IF r.exc = "TimeoutExpired"
                        THEN Info(frame.pid, frame.name, "TIMEOUT", "none")
                        ELSE HandlerInfo(frame.pid, r.exc),
                        tr)
    /\ UNCHANGED <<procs, gens, socks, allow, exited, call, prot, gui>>

(* ---------------------- terminate_process_by_port ---------------------- *)
\* terminate_process_by_port entered: the guard, then the scan of
\* find_port_by_number
ByPortBody(port, protocol, force) ==
    /\ IF SystemPortBlocked(port, allow)
       THEN /\ pc' = "done" /\ trace' = << >> /\ loop' = loop
            /\ ret' = RetList(<<Info(0, <<"Sistemnyi port">>, "SYSTEM_PROCESS", "none")>>)
       ELSE \E access \in NetAccess, zombie_raises \in BOOLEAN :
            LET ports_info == FindPortByNumber(port, protocol, access, zombie_raises) IN
            /\ trace' = <<Ev("net_connections", NoPid, 0, access)>>
            /\ IF ports_info = << >>
               THEN /\ pc' = "done" /\ loop' = loop
                    /\ ret' = RetList(<<Info(0, <<"Ne naiden">>, "NOT_FOUND", "none")>>)
               ELSE /\ pc' = "loop" /\ ret' = ret
                    /\ loop' = [idx |-> 1, views |-> ports_info, results |-> << >>]
    /\ UNCHANGED <<procs, gens, socks, allow, exited, frame, prot, gui>>

\* a caller invokes terminate_process_by_port(port, protocol, force)
StartByPort(port, protocol, force) ==
    /\ pc = "idle"
    /\ call' = [op |-> "byPort", port |-> port, protocol |-> protocol, force |-> force]
    /\ ByPortBody(port, protocol, force)

\* one turn of `for port_info in ports_info`, or `return results` after it
LoopStep ==
    /\ pc = "loop"
    /\ IF loop.idx > Len(loop.views)
       THEN /\ pc' = "done" /\ ret' = RetList(loop.results)
            /\ UNCHANGED <<frame, prot, loop, trace>>
       ELSE LET port_info == loop.views[loop.idx] IN
            IF port_info.pid # NoPid
            THEN Enter("byPort", port_info.pid, call.force, DefaultTimeout, 1, trace)
            ELSE /\ loop' = [loop EXCEPT
                                !.results = Append(@, Info(0, <<"Neizvesten">>,
                                                           "NOT_FOUND", "none")),
                                !.idx = @ + 1]
                 /\ UNCHANGED <<pc, frame, prot, ret, trace>>
    /\ UNCHANGED <<procs, gens, socks, allow, exited, call, gui>>

\* the caller takes the returned value; the engine keeps nothing
Return ==
    /\ pc = "done"
    /\ pc' = "idle" /\ call' = NoCall /\ frame' = NoFrame /\ prot' = NoProt
    /\ loop' = NoLoop /\ ret' = NoRet /\ trace' = << >>
    /\ UNCHANGED <<procs, gens, socks, allow, exited, gui>>

(* --------------------------- specifications ---------------------------- *)
\* terminate_process_by_pid called on its own
Next ==
    \/ \E pid \in Pids, force \in ForceArgs, timeout \in TimeoutArgs :
          StartByPid(pid, force, timeout)
    \/ Reopen
    \/ ReadName
    \/ ProtOpen
    \/ ProtName
    \/ ProtPpid
    \/ Liveness
    \/ Signal
    \/ Wait
    \/ Return
    \/ \E pid \in UserPids : Exit(pid)
    \/ \E pid \in UserPids : Reap(pid)
    \/ \E pid \in UserPids, prof \in Profiles : Spawn(pid, prof)

Spec == Init /\ [][Next]_vars

\* terminate_process_by_port, which calls terminate_process_by_pid; the
\* processes may exit while it runs (PID reuse is left to Spec)
NextPort ==
    \/ \E port \in PortArgs, protocol \in ProtocolArgs, force \in ForceArgs :
          StartByPort(port, protocol, force)
    \/ LoopStep
    \/ Reopen
    \/ ReadName
    \/ ProtOpen
    \/ ProtName
    \/ ProtPpid
    \/ Liveness
    \/ Signal
    \/ Wait
    \/ Return
    \/ \E pid \in UserPids : Exit(pid)
    \/ \E pid \in UserPids : Reap(pid)

SpecPort == InitPort /\ [][NextPort]_vars

(* --------------- is_process_protected called on its own ---------------- *)
\* process names for the policy, in several letter cases
PolicyNames == {
    <<"b","a","s","h">>,
    <<"k","w","o","r","k","e","r">>,
    S_sshd,
    <<"S","S","H","D">>,
    S_NetworkManager,
    <<"d","b","u","s","-","d","a","e","m","o","n">>,
    <<"X","i","n","i","t">>,
    <<"r","c","u","_","s","c","h","e","d">> }

\* any process table of PID 1 and one ordinary PID over these names
InitProt ==
    /\ procs \in [Pids -> {NoProc} \cup
                    {Proc(n, pp, a) : n \in PolicyNames, pp \in {0, 1, KthreaddPid},
                                      a \in {"full", "hidden"}}]
    /\ procs[InitPid] # NoProc => procs[InitPid].ppid = 0
    /\ \A pid \in UserPids : procs[pid] # NoProc => procs[pid].ppid # 0
    /\ gens = [pid \in Pids |-> 0]
    /\ socks = << >>
    /\ allow = FALSE
    /\ exited = {}
    /\ Idle

NextProt ==
    \/ \E pid \in Pids : StartIsProtected(pid)
    \/ ProtName
    \/ ProtPpid
    \/ Return
    \/ \E pid \in UserPids : Exit(pid)
    \/ \E pid \in UserPids : Reap(pid)
    \/ \E pid \in UserPids, prof \in Profiles : Spawn(pid, prof)

SpecProt == InitProt /\ [][NextProt]_vars

(* --------------------- PortScanner called on its own ------------------- *)
\* the longest socket table of the scans
MaxSocks == 3

\* sockets the OS may hold: two on the same (TCP, 8080) with different
\* owners, a TCP socket without owner in a state outside the mapping, a
\* connected UDP socket (the kernel holds ESTABLISHED for it), a socket not
\* yet bound that the platform lists with port 0, and one without any local
\* address
ScanSocks == {
    Sock(8080, "SOCK_STREAM", "LISTEN", InitPid),
    Sock(8080, "SOCK_STREAM", "LISTEN", 3),
    Sock(80, "SOCK_STREAM", "CLOSE", NoPid),
    Sock(8080, "SOCK_DGRAM", "ESTABLISHED", 3),
    Sock(0, "SOCK_DGRAM", "NONE", 3),
    [Sock(0, "SOCK_STREAM", "CLOSE", NoPid) EXCEPT !.laddr = FALSE] }

RECURSIVE SocketTables(_)
SocketTables(n) ==
    IF n = 0 THEN {<< >>}
    ELSE LET shorter == SocketTables(n - 1)
         IN  shorter \cup {Append(t, x) : t \in {u \in shorter : Len(u) = n - 1},
                                           x \in ScanSocks}

\* the arguments the callers of the scans pass
RangeArgs == {80, 8080}
FindProtocolArgs == {NoName, S_tcp, S_UDP}

\* a socket table of at most MaxSocks sockets, and the process table as the
\* metadata reads find it: PID 1 runs, the process of PID 3 runs, is hidden,
\* is a zombie or is gone, whatever sockets the enumeration attributes to it
InitScan ==
    /\ socks \in SocketTables(MaxSocks)
    /\ \E p3 \in {NoProc,
                   Proc(<<"n","o","d","e">>, 1, "full"),
                   Proc(<<"m","y","s","q","l","d">>, 1, "hidden"),
                   [Proc(<<"n","o","d","e">>, 1, "full") EXCEPT !.st = "zombie"]} :
          procs = [pid \in Pids |->
                     IF pid = InitPid THEN Proc(<<"s","y","s","t","e","m","d">>, 0, "nosignal")
                     ELSE p3]
    /\ gens = [pid \in Pids |-> 0]
    /\ allow = FALSE
    /\ exited = {}
    /\ Idle

\* a scan operation runs to its return: call keeps the arguments, what the OS
\* allowed and the net_connections calls made (zombie_raises is a choice only
\* when there is a zombie to read)
Scanned(op, args, access, zombie_raises, result) ==
    /\ pc = "idle"
    /\ zombie_raises => \E pid \in Pids : procs[pid] # NoProc /\ procs[pid].st = "zombie"
    /\ pc' = "done"
    /\ call' = [op |-> op, args |-> args, access |-> access,
                zombie_raises |-> zombie_raises, net |-> NetCalls(access)]
    /\ ret' = RetList(result)
    /\ UNCHANGED <<procs, gens, socks, allow, exited, frame, prot, loop, trace, gui>>

StartScanAll ==
    \E access \in NetAccess, zombie_raises \in BOOLEAN :
        Scanned("scanAll", << >>, access, zombie_raises,
                ScanAllPorts(access, zombie_raises))

StartScanListening ==
    \E access \in NetAccess, zombie_raises \in BOOLEAN :
        Scanned("scanListening", << >>, access, zombie_raises,
                ScanListeningPorts(access, zombie_raises))

StartScanRange(start_port, end_port, protocol) ==
    \E access \in NetAccess, zombie_raises \in BOOLEAN :
        Scanned("scanRange", <<start_port, end_port, protocol>>, access, zombie_raises,
                ScanPortRange(start_port, end_port, protocol, access, zombie_raises))

StartFindByPort(port_number, protocol) ==
    \E access \in NetAccess, zombie_raises \in BOOLEAN :
        Scanned("findByPort", <<port_number, protocol>>, access, zombie_raises,
                FindPortByNumber(port_number, protocol, access, zombie_raises))

NextScan ==
    \/ StartScanAll
    \/ StartScanListening
    \/ \E start_port \in RangeArgs, end_port \in RangeArgs, protocol \in ProtocolArgs :
          StartScanRange(start_port, end_port, protocol)
    \/ \E port_number \in RangeArgs, protocol \in FindProtocolArgs :
          StartFindByPort(port_number, protocol)
    \/ Return

SpecScan == InitScan /\ [][NextScan]_vars

(* ------------------------------ properties ----------------------------- *)
Signals == {"SIGTERM", "SIGKILL"}
\* the places of trace where a signal call was made, and where it was sent
SignalEvents == {i \in DOMAIN trace : trace[i].op \in Signals}
SentSignals == {i \in SignalEvents : trace[i].res = "ok"}
\* terminate_process_by_pid has returned to its caller
ByPidDone == call.op = "byPid" /\ pc = "done"
\* the running call has entered its second, escalated attempt
Escalated == \E i \in DOMAIN trace : trace[i].d = 2
\* a step of the running operation, as opposed to one of the environment
EngineStep ==
    \/ Reopen \/ ReadName \/ ProtOpen \/ ProtName \/ ProtPpid
    \/ Liveness \/ Signal \/ Wait

\* C1: when the protection check of an attempt of terminate_process_by_pid
\* reports the PID protected, the call returns at once with SYSTEM_PROCESS and
\* that attempt makes no signal call; when it is the check of the first
\* attempt (the PID is protected when the call looks at it), the whole call
\* makes no signal call, terminate or kill, whatever force is.
C1_ProtectedPidGetsNoSignal ==
    call.op = "byPid" =>
        \A i \in DOMAIN trace :
            (trace[i].op = "is_process_protected" /\ trace[i].res = "True") =>
                /\ pc = "done" /\ i = Len(trace)
                /\ ret.kind = "info" /\ ret.info.result = "SYSTEM_PROCESS"
                /\ \A j \in DOMAIN trace :
                      trace[j].d = trace[i].d => trace[j].op \notin Signals
                /\ trace[i].d = 1 => SignalEvents = {}

C1_Witness ==
    /\ ByPidDone /\ call.force /\ ret.info.result = "SYSTEM_PROCESS"
    /\ trace[Len(trace)].op = "is_process_protected" /\ trace[Len(trace)].d = 1

\* C2: whatever OS call fails and however, in the first attempt or in the
\* escalated one, terminate_process_by_pid returns one ProcessTerminationInfo
\* for its PID whose result is one of the seven TerminationResult values; no
\* exception leaves it.
C2_AlwaysOneOutcome ==
    ByPidDone =>
        /\ ret.kind = "info"
        /\ ret.info.pid = call.pid
        /\ ret.info.result \in TerminationResult

C2_Witness ==
    /\ ByPidDone /\ ret.info.result = "ERROR"
    /\ \E i \in DOMAIN trace : trace[i].d = 2 /\ trace[i].res = "OSError"

\* C3: a call of terminate_process_by_pid runs at most two attempts and makes
\* at most two signal calls; a kill in a call started with force=False comes
\* only after a terminate that was sent and a wait that timed out; no
\* terminate follows a kill; and the call cannot hang: until it returns a step
\* of it is enabled, and it returns within 18 OS calls.
C3_EscalatesAtMostOnce ==
    call.op = "byPid" =>
        /\ \A i \in DOMAIN trace : trace[i].d \in {1, 2}
        /\ Cardinality(SignalEvents) <= 2
        /\ \A i \in SignalEvents :
              (trace[i].op = "SIGKILL" /\ ~call.force) =>
                  \E j, k \in DOMAIN trace :
                      /\ j < k /\ k < i
                      /\ trace[j].op = "SIGTERM" /\ trace[j].res = "ok"
                      /\ trace[k].op = "wait" /\ trace[k].res = "TimeoutExpired"
        /\ \A i, j \in SignalEvents :
              i < j => ~(trace[i].op = "SIGKILL" /\ trace[j].op = "SIGTERM")
        /\ Len(trace) <= 18
        /\ pc # "done" => ENABLED EngineStep

C3_Witness ==
    /\ ByPidDone /\ ~call.force
    /\ ret.info.result = "SUCCESS" /\ ret.info.signal_used = "SIGKILL"
    /\ \E i, j \in SentSignals :
          i < j /\ trace[i].op = "SIGTERM" /\ trace[j].op = "SIGKILL"

\* C4 as stated: after an escalation the outcome is SUCCESS or TIMEOUT and no
\* other kind.
C4_EscalatedEndsSuccessOrTimeout ==
    (ByPidDone /\ Escalated) => ret.info.result \in {"SUCCESS", "TIMEOUT"}

\* C4 as amended: a graceful wait that times out is followed by a forced
\* attempt with timeout // 2, and the call returns the outcome of that
\* attempt, which runs the whole procedure again: SUCCESS or TIMEOUT exactly
\* when the forced attempt gets to the end of its wait (a SUCCESS then names
\* SIGKILL), and otherwise NOT_FOUND, SYSTEM_PROCESS, ALREADY_TERMINATED,
\* ACCESS_DENIED or ERROR, as the step that stopped it decides.
C4_EscalatedOutcomeIsTheForcedAttempts ==
    call.op = "byPid" =>
        /\ \A i \in DOMAIN trace :
              (/\ trace[i].op = "wait" /\ trace[i].res = "TimeoutExpired"
               /\ trace[i].d = 1 /\ ~call.force) =>
                  IF i = Len(trace)
                  THEN /\ pc = "open" /\ frame.d = 2 /\ frame.force
                       /\ frame.timeout = call.timeout \div 2
                  ELSE trace[i + 1].op = "Process" /\ trace[i + 1].d = 2
        /\ frame.d = 2 => frame.force /\ frame.timeout = call.timeout \div 2
        /\ (pc = "done" /\ Escalated) =>
              LET last == trace[Len(trace)]
                  waited == last.op = "wait" /\ last.res \in {"exited", "TimeoutExpired"}
              IN  /\ last.d = 2
                  /\ ret.info.result \in {"SUCCESS", "TIMEOUT"} <=> waited
                  /\ ret.info.result = "SUCCESS" => ret.info.signal_used = "SIGKILL"
                  /\ ~waited => ret.info.result \in
                        {"NOT_FOUND", "SYSTEM_PROCESS", "ALREADY_TERMINATED",
                         "ACCESS_DENIED", "ERROR"}

C4_Witness ==
    /\ ByPidDone /\ Escalated /\ call.timeout = 3
    /\ ret.info.result = "NOT_FOUND"

C6_NoSignalToSystemPortOwner ==
    ~allow => \A i \in DOMAIN trace : ~trace[i].sys

\* C6 as amended: the guard looks at the port argument only. With
\* allow_system_ports False a terminate_process_by_port call whose port
\* argument is in SYSTEM_PORTS makes no signal call; every signal call of a
\* terminate_process_by_port call goes to the PID of a view found for the port
\* argument, which is then not a system port, whatever other ports that
\* process owns.
C6_GuardCoversThePortArgumentOnly ==
    (call.op = "byPort" /\ ~allow) =>
        \A i \in SignalEvents :
            /\ call.port \notin SYSTEM_PORTS
            /\ \E k \in DOMAIN loop.views :
                  /\ loop.views[k].pid = trace[i].pid
                  /\ loop.views[k].port = call.port

C6_Witness ==
    /\ call.op = "byPort" /\ ~allow /\ call.port = 8080
    /\ \E i \in SentSignals : trace[i].sys

\* C7: is_process_protected(1) never returns False, and returns True whenever
\* name() raises nothing outside psutil's process errors; and
\* is_process_protected(pid) returns True whenever the process cannot be
\* opened or its name cannot be read (NoSuchProcess, ZombieProcess,
\* AccessDenied).
C7_Pid1AndUnresolvableAreProtected ==
    (call.op = "isProtected" /\ pc = "done") =>
        /\ call.pid = InitPid =>
              /\ ret # RetBool(FALSE)
              /\ (\A i \in DOMAIN trace : trace[i].res # "OSError") => ret = RetBool(TRUE)
        /\ (\E i \in DOMAIN trace :
               /\ trace[i].op \in {"p.Process", "p.name"}
               /\ trace[i].res \in {"NoSuchProcess", "ZombieProcess", "AccessDenied"})
              => ret = RetBool(TRUE)

C7_Witness ==
    /\ call.op = "isProtected" /\ pc = "done" /\ call.pid = InitPid
    /\ prot.process_name = <<"b","a","s","h">>
    /\ ret = RetBool(TRUE)

\* C8 as stated: is_process_protected returns True for every process whose
\* name was read and, lower-cased, contains the lower-cased form of an entry
\* of PROTECTED_PROCESSES (the entry whatever its letter case).
C8_DenyListedNamesAreProtected ==
    (/\ call.op = "isProtected" /\ pc = "done" /\ ret.kind = "bool"
     /\ \E e \in PROTECTED_PROCESSES : Contains(prot.process_name, Lower(e)))
        => ret.val = TRUE

\* C9 as stated: terminate_process_by_pid called for a process that has
\* exited returns ALREADY_TERMINATED and makes no signal call.
C9_ExitedProcessIsAlreadyTerminated ==
    (ByPidDone /\ call.exited) =>
        /\ ret.info.result = "ALREADY_TERMINATED"
        /\ SignalEvents = {}

\* C10: terminate_process_by_pid called with a PID that names no process
\* returns NOT_FOUND, whatever force and timeout are; its only OS call is the
\* psutil.Process(pid) that raised NoSuchProcess: the protection check is not
\* run and no signal call is made.
C10_AbsentPidIsNotFound ==
    (call.op = "byPid" /\ call.st = "absent") =>
        /\ pc = "done"
        /\ ret.kind = "info" /\ ret.info.result = "NOT_FOUND"
        /\ Len(trace) = 1
        /\ trace[1].op = "Process" /\ trace[1].res = "NoSuchProcess"

C10_Witness ==
    /\ ByPidDone /\ call.st = "absent" /\ call.force /\ call.timeout = -1
    /\ ret.info.result = "NOT_FOUND"

\* the sockets a scan allowed `access` can see for (port, protocol): those
\* with a local address on that port whose transport, TCP for a stream socket
\* and UDP otherwise, is the protocol asked for, letter case aside
BoundTo(port, protocol, access) ==
    {i \in DOMAIN socks :
        /\ socks[i].laddr /\ socks[i].port = port
        /\ access # "denied"
        /\ access = "tcp" => socks[i].type = "SOCK_STREAM"
        /\ Upper(protocol) = (IF socks[i].type = "SOCK_STREAM" THEN S_TCP ELSE S_UDP)}

\* C11: a terminate_process_by_port call that passes the system-port guard
\* and whose scan sees no socket with that local port and transport returns
\* at once a list of exactly one NOT_FOUND outcome (pid 0); its only OS call
\* is the enumeration of the sockets, so it sends no signal.
C11_UnboundPortIsNotFound ==
    [][(/\ pc = "idle" /\ call'.op = "byPort"
        /\ ~(call'.port \in SYSTEM_PORTS /\ ~allow)
        /\ BoundTo(call'.port, call'.protocol, trace'[1].res) = {})
       => (/\ pc' = "done"
           /\ ret'.kind = "list" /\ Len(ret'.list) = 1
           /\ ret'.list[1].result = "NOT_FOUND" /\ ret'.list[1].pid = 0
           /\ Len(trace') = 1 /\ trace'[1].op = "net_connections")]_vars

C11_Witness ==
    /\ call.op = "byPort" /\ pc = "done" /\ call.port = 8080 /\ call.protocol = S_UDP
    /\ ret.list[1].result = "NOT_FOUND" /\ Len(trace) = 1 /\ trace[1].res = "inet"
    /\ \E i \in DOMAIN socks : socks[i].port = 8080 /\ socks[i].type = "SOCK_STREAM"

\* the terminate_process_by_pid calls the loop has entered, in order, and the
\* views with a known PID among the first n
LoopAttempts == SelectSeq(trace, LAMBDA e : e.op = "Process" /\ e.d = 1)
KnownViews(n) == SelectSeq(SubSeq(loop.views, 1, n), LAMBDA v : v.pid # NoPid)

\* C12: a terminate_process_by_port call that resolved n >= 1 views returns
\* exactly n outcomes, the i-th being that of terminate_process_by_pid on the
\* PID of the i-th view when the view has one and a NOT_FOUND with pid 0
\* otherwise; terminate_process_by_pid is entered once for every view with a
\* PID, in the order of the views and whatever the earlier outcomes were (so
\* k times for a PID that owns k of the views), and the loop cannot stop
\* before the last view.
C12_OneOutcomePerViewInOrder ==
    (call.op = "byPort" /\ loop # NoLoop) =>
        LET n == Len(loop.views)
            cur == IF pc \in {"loop", "done"} THEN loop.idx - 1 ELSE loop.idx
        IN  /\ n >= 1 /\ loop.idx \in 1..(n + 1)
            /\ Len(loop.results) = loop.idx - 1
            /\ \A i \in DOMAIN loop.results :
                  IF loop.views[i].pid # NoPid
                  THEN /\ loop.results[i].pid = loop.views[i].pid
                       /\ loop.results[i].result \in TerminationResult
                  ELSE /\ loop.results[i].pid = 0
                       /\ loop.results[i].result = "NOT_FOUND"
            /\ Len(LoopAttempts) = Len(KnownViews(cur))
            /\ \A k \in DOMAIN LoopAttempts :
                  LoopAttempts[k].pid = KnownViews(cur)[k].pid
            /\ pc = "done" => (loop.idx = n + 1 /\ ret = RetList(loop.results))
            /\ pc # "done" => ENABLED (LoopStep \/ EngineStep)

C12_Witness ==
    /\ call.op = "byPort" /\ pc = "done" /\ Len(ret.list) = 3
    /\ loop.views[2].pid = loop.views[3].pid
    /\ ret.list[1].result = "SYSTEM_PROCESS"
    /\ ret.list[2].result = "SUCCESS"
    /\ ret.list[3].result = "NOT_FOUND" /\ ret.list[3].pid = loop.views[3].pid

(* ------------------------ properties of the scans ---------------------- *)
ScanOps == {"scanAll", "scanListening", "scanRange", "findByPort"}
\* a scan has returned
ScanDone(op) == call.op = op /\ pc = "done"
AnyScanDone == call.op \in ScanOps /\ pc = "done"
\* scan_all_ports over the tables the finished scan ran on
ScanAllNow == ScanAllPorts(call.access, call.zombie_raises)
\* the views of a scan before they are sorted: the order of enumeration
Enumerated == CollectViews(NetConnections(call.access), call.zombie_raises)
\* (x.protocol, x.port) compared as Python compares the tuples
KeyLT(a, b) ==
    \/ a.protocol = S_TCP /\ b.protocol = S_UDP
    \/ a.protocol = b.protocol /\ a.port < b.port
SameKey(a, b) == a.protocol = b.protocol /\ a.port = b.port
Perms(n) == {f \in [1..n -> 1..n] : \A i, j \in 1..n : f[i] = f[j] => i = j}
\* res holds exactly the elements of all at the places keep, in all's order
FilterIs(res, all, keep) ==
    /\ Len(res) = Cardinality(keep)
    /\ \A i \in keep : res[Cardinality({j \in keep : j <= i})] = all[i]

\* C13: scan_all_ports returns its views in ascending order of
\* (protocol, port), 'TCP' before 'UDP', and it is a rearrangement of the
\* enumerated views in which two views of equal (protocol, port) keep the
\* order of their enumeration.
C13_ScanAllSortedAndStable ==
    ScanDone("scanAll") =>
        /\ \A i, j \in DOMAIN ret.list : i < j => ~KeyLT(ret.list[j], ret.list[i])
        /\ Len(ret.list) = Len(Enumerated)
        /\ \E f \in Perms(Len(ret.list)) :
              /\ \A i \in DOMAIN ret.list : ret.list[i] = Enumerated[f[i]]
              /\ \A i, j \in DOMAIN ret.list :
                    (i < j /\ SameKey(ret.list[i], ret.list[j])) => f[i] < f[j]

C13_Witness ==
    /\ ScanDone("scanAll") /\ Len(ret.list) = 3
    /\ socks[1].type = "SOCK_DGRAM" /\ socks[2].pid = 3 /\ socks[3].pid = InitPid
    /\ SameKey(ret.list[1], ret.list[2])
    /\ ret.list[1].pid = 3 /\ ret.list[2].pid = InitPid
    /\ ret.list[3].protocol = S_UDP

\* C14: for a fixed socket table scan_listening_ports returns exactly the
\* views of scan_all_ports whose status is LISTEN, in the order of
\* scan_all_ports: none is missing and no other is returned.
C14_ScanListeningIsTheListenPart ==
    ScanDone("scanListening") =>
        /\ \A k \in DOMAIN ret.list : ret.list[k].status = "LISTEN"
        /\ FilterIs(ret.list, ScanAllNow,
                    {i \in DOMAIN ScanAllNow : ScanAllNow[i].status = "LISTEN"})

C14_Witness ==
    /\ ScanDone("scanListening") /\ Len(ret.list) = 2 /\ Len(ScanAllNow) = 3
    /\ ret.list[1] # ret.list[2]

\* C15: for a fixed socket table scan_port_range(a, b, t) returns exactly the
\* views of scan_all_ports with a <= port <= b, both bounds included, whose
\* protocol is t letter case aside, in the order of scan_all_ports; it returns
\* the empty list when a > b.
C15_ScanRangeIsTheRangePart ==
    ScanDone("scanRange") =>
        LET a == call.args[1]
            b == call.args[2]
            t == call.args[3]
        IN  /\ FilterIs(ret.list, ScanAllNow,
                        {i \in DOMAIN ScanAllNow :
                            /\ a <= ScanAllNow[i].port /\ ScanAllNow[i].port <= b
                            /\ Upper(ScanAllNow[i].protocol) = Upper(t)})
            /\ a > b => ret.list = << >>

C15_Witness ==
    /\ ScanDone("scanRange") /\ call.args = <<80, 8080, S_tcp>>
    /\ Len(ret.list) = 2 /\ Len(ScanAllNow) = 3
    /\ ret.list[1].port = 80 /\ ret.list[2].port = 8080
    /\ ScanAllNow[3].protocol = S_UDP /\ ScanAllNow[3].port = 8080

\* C16: for a fixed socket table find_port_by_number(port, protocol) returns
\* exactly the views of scan_all_ports on that port, in the order of
\* scan_all_ports: those of the protocol given, letter case aside, and those
\* of both protocols when none is given.
C16_FindByPortIsThePortPart ==
    ScanDone("findByPort") =>
        LET port_number == call.args[1]
            protocol == call.args[2]
        IN  FilterIs(ret.list, ScanAllNow,
                     {i \in DOMAIN ScanAllNow :
                         /\ ScanAllNow[i].port = port_number
                         /\ protocol # NoName =>
                               Upper(ScanAllNow[i].protocol) = Upper(protocol)})

C16_Witness ==
    /\ ScanDone("findByPort") /\ call.args = <<8080, S_tcp>>
    /\ Len(ret.list) = 1 /\ ret.list[1].protocol = S_TCP
    /\ \E i \in DOMAIN ScanAllNow :
          ScanAllNow[i].port = 8080 /\ ScanAllNow[i].protocol = S_UDP

\* C17 as stated: every view a scan returns has a port in 1..65535 and the
\* protocol TCP or UDP, for every socket table the OS can report.
C17_ViewsHaveAPortAndATransport ==
    AnyScanDone =>
        \A k \in DOMAIN ret.list :
            /\ ret.list[k].port \in 1..65535
            /\ ret.list[k].protocol \in {S_TCP, S_UDP}

\* the owner of a view could not be read when the scan fetched its metadata
Unavailable(pid) ==
    \/ procs[pid] = NoProc
    \/ procs[pid].acc = "hidden"
    \/ procs[pid].st = "zombie" /\ call.zombie_raises

\* C18: scan_all_ports returns one view for every enumerated socket that has
\* a local address, whatever became of the owners: the views carry the port,
\* transport and owner PID of the sockets; the view of a socket whose owner
\* has vanished, is a zombie that cannot be read, or is inaccessible keeps the
\* PID, has the name made from the PID and no other process field; the views
\* of the other sockets carry the name and fields of their owners.
C18_RacyOwnerKeepsItsViewAndTheScan ==
    ScanDone("scanAll") =>
        LET conns == NetConnections(call.access)
            kept == {i \in DOMAIN conns : conns[i].laddr}
            Of(i, v) == /\ v.port = conns[i].port /\ v.pid = conns[i].pid
                        /\ v.protocol = S_TCP <=> conns[i].type = "SOCK_STREAM"
        IN  /\ Len(ret.list) = Cardinality(kept)
            /\ \A i \in kept :
                  Cardinality({k \in DOMAIN ret.list : Of(i, ret.list[k])})
                    = Cardinality({j \in kept : Of(i, [port |-> conns[j].port,
                                    pid |-> conns[j].pid,
                                    protocol |-> IF conns[j].type = "SOCK_STREAM"
                                                 THEN S_TCP ELSE S_UDP])})
            /\ \A k \in DOMAIN ret.list :
                  LET v == ret.list[k] IN
                  IF v.pid = NoPid
                  THEN v.process_name = NoName /\ v.process_exe = "None"
                  ELSE IF Unavailable(v.pid)
                  THEN v.process_name = UnavailableName(v.pid) /\ v.process_exe = "None"
                  ELSE v.process_name = procs[v.pid].name /\ v.process_exe = "exe"

C18_Witness ==
    /\ ScanDone("scanAll") /\ procs[3] = NoProc /\ Len(ret.list) = 2
    /\ \E k \in DOMAIN ret.list :
          /\ ret.list[k].pid = 3 /\ ret.list[k].process_name = UnavailableName(3)
    /\ \E k \in DOMAIN ret.list :
          /\ ret.list[k].pid = InitPid
          /\ ret.list[k].process_name = <<"s","y","s","t","e","m","d">>

\* C19: scan_all_ports asks for the inet enumeration first; when that is
\* denied it asks for the TCP-only one and returns the views of the TCP
\* sockets; when that is denied too it returns the empty list; it returns a
\* list in every case.
C19_FallbackToTcpThenEmpty ==
    ScanDone("scanAll") =>
        LET bound == {i \in DOMAIN socks : socks[i].laddr}
            stream == {i \in bound : socks[i].type = "SOCK_STREAM"}
        IN  /\ ret.kind = "list"
            /\ call.net[1][1] = "inet"
            /\ call.net[1][2] = "ok" =>
                  Len(call.net) = 1 /\ Len(ret.list) = Cardinality(bound)
            /\ call.net[1][2] = "AccessDenied" =>
                  /\ Len(call.net) = 2 /\ call.net[2][1] = "tcp"
                  /\ call.net[2][2] = "ok" =>
                        /\ Len(ret.list) = Cardinality(stream)
                        /\ \A k \in DOMAIN ret.list : ret.list[k].protocol = S_TCP
                  /\ call.net[2][2] = "AccessDenied" => ret.list = << >>

C19_Witness ==
    /\ ScanDone("scanAll") /\ call.net = << <<"inet", "AccessDenied">>, <<"tcp", "ok">> >>
    /\ Len(ret.list) = 2
    /\ \E i \in DOMAIN socks : socks[i].laddr /\ socks[i].type = "SOCK_DGRAM"

\* C20: every view with protocol UDP that a scan returns has the status
\* UNKNOWN, whatever state the OS holds for the socket.
C20_UdpViewsAreUnknown ==
    AnyScanDone =>
        \A k \in DOMAIN ret.list :
            ret.list[k].protocol = S_UDP => ret.list[k].status = "UNKNOWN"

C20_Witness ==
    /\ AnyScanDone
    /\ \E i \in DOMAIN socks : socks[i] = Sock(8080, "SOCK_DGRAM", "ESTABLISHED", 3)
    /\ \E k \in DOMAIN ret.list :
          /\ ret.list[k].protocol = S_UDP /\ ret.list[k].port = 8080
          /\ ret.list[k].status = "UNKNOWN"

(* ------------- the scans called again while sockets come and go -------- *)
\* sockets that are opened and closed between the scans
FreshSocks == {
    Sock(8080, "SOCK_STREAM", "LISTEN", 3),
    Sock(8080, "SOCK_DGRAM", "NONE", 3) }

\* no socket yet; PID 1 and one ordinary process run
InitFresh ==
    /\ socks = << >>
    /\ procs = [pid \in Pids |->
                  IF pid = InitPid THEN Proc(<<"s","y","s","t","e","m","d">>, 0, "nosignal")
                  ELSE Proc(<<"n","o","d","e">>, 1, "full")]
    /\ gens = [pid \in Pids |-> 0]
    /\ allow = FALSE
    /\ exited = {}
    /\ Idle

\* a process binds a socket
OpenSocket(s) ==
    /\ Len(socks) < MaxSocks
    /\ socks' = Append(socks, s)
    /\ UNCHANGED <<procs, gens, allow, exited, pc, call, frame, prot, loop, ret, trace, gui>>

\* a socket is closed
CloseSocket(i) ==
    /\ i \in DOMAIN socks
    /\ socks' = SubSeq(socks, 1, i - 1) \o SubSeq(socks, i + 1, Len(socks))
    /\ UNCHANGED <<procs, gens, allow, exited, pc, call, frame, prot, loop, ret, trace, gui>>

\* a scanner that hands out again the list it returned before
ScanValue_Cached(previous, result) ==
    IF previous.kind = "list" THEN previous.list ELSE result

\* the value a scan returns, `previous` being what the call before it
\* returned: scan_all_ports starts from `ports = []` and a PortScanner has no
\* field to keep a list in, so nothing of `previous` is used
ScanValue(previous, result) == result

\* a scan operation called while the caller still holds the value of the scan
\* before it, or none: call keeps whether this is the same query as before,
\* and then the value the query had before
ScannedAgain(op, args, access, result) ==
    LET again == pc = "done" /\ call.op = op /\ call.args = args /\ call.access = access
    IN  /\ pc \in {"idle", "done"}
        /\ pc' = "done"
        /\ call' = [op |-> op, args |-> args, access |-> access,
                    zombie_raises |-> FALSE, net |-> NetCalls(access),
                    again |-> again, before |-> IF again THEN ret ELSE NoRet]
        /\ ret' = RetList(ScanValue(ret, result))
        /\ UNCHANGED <<procs, gens, socks, allow, exited, frame, prot, loop, trace, gui>>

\* the four scan methods, called with the arguments of their callers
NextFresh ==
    \/ \E access \in NetAccess :
          ScannedAgain("scanAll", << >>, access, ScanAllPorts(access, FALSE))
    \/ \E access \in NetAccess :
          ScannedAgain("scanListening", << >>, access,
                       ScanListeningPorts(access, FALSE))
    \/ \E access \in NetAccess :
          ScannedAgain("scanRange", <<80, 8080, S_tcp>>, access,
                       ScanPortRange(80, 8080, S_tcp, access, FALSE))
    \/ \E access \in NetAccess, protocol \in {NoName, S_UDP} :
          ScannedAgain("findByPort", <<8080, protocol>>, access,
                       FindPortByNumber(8080, protocol, access, FALSE))
    \/ Return
    \/ \E s \in FreshSocks : OpenSocket(s)
    \/ \E i \in 1..MaxSocks : CloseSocket(i)

SpecFresh == InitFresh /\ [][NextFresh]_vars

\* a step in which a scan operation is called and returns
ScanCall ==
    /\ pc' = "done" /\ call'.op \in ScanOps
    /\ pc = "idle" \/ <<call, ret>>' # <<call, ret>>
\* the value of operation op over the socket table of the state
ScanOf(op, args, access) ==
    CASE op = "scanAll" -> ScanAllPorts(access, FALSE)
      [] op = "scanListening" -> ScanListeningPorts(access, FALSE)
      [] op = "scanRange" -> ScanPortRange(args[1], args[2], args[3], access, FALSE)
      [] op = "findByPort" -> FindPortByNumber(args[1], args[2], access, FALSE)
\* the sockets of the state that have a view in the list vs, counted
SeenIn(vs, s) ==
    Cardinality({i \in DOMAIN vs : vs[i].port = s.port /\ vs[i].pid = s.pid
                                   /\ vs[i].protocol = IF s.type = "SOCK_STREAM"
                                                       THEN S_TCP ELSE S_UDP})
HeldBy(s) == Cardinality({i \in DOMAIN socks : socks[i] = s})

\* C21: every call of scan_all_ports, scan_listening_ports, scan_port_range
\* and find_port_by_number returns what the operation gives on the socket
\* table held at the time of the call, whatever an earlier call returned and
\* whatever sockets were opened or closed since: at most one
\* psutil.net_connections call of it yields a table, scan_all_ports run on
\* the full enumeration shows each socket as often as the table then holds
\* it, and the call changes nothing but the value handed to its caller.
C21_EachScanIsFreshAndPure ==
    [][ScanCall =>
        /\ ret'.kind = "list"
        /\ ret'.list = ScanOf(call'.op, call'.args, call'.access)
        /\ Cardinality({i \in DOMAIN call'.net : call'.net[i][2] = "ok"}) <= 1
        /\ call'.op = "scanAll" /\ call'.access = "inet" =>
              \A s \in FreshSocks : SeenIn(ret'.list, s) = HeldBy(s)
        /\ UNCHANGED <<procs, gens, socks, allow, exited, frame, prot, loop, trace, gui>>]_vars

\* the same scan_all_ports query returned two views, a socket was closed, and
\* the query called again returns one view
C21_Witness ==
    /\ pc = "done" /\ call.op = "scanAll" /\ call.access = "inet"
    /\ call.again /\ Len(call.before.list) = 2 /\ Len(ret.list) = 1
    /\ Len(socks) = 1

(* --------------------------- the CLI kill command ---------------------- *)
\* the answers confirm_action accepts, the two Cyrillic letters of them
\* written by name
Affirmative == { <<"cyr-de", "cyr-a">>, <<"y","e","s">>, <<"y">>, <<"cyr-de">> }

\* what the operator may type at the prompt
ResponseArgs == { <<"y">>, <<"Y","E","S">>, <<"cyr-de", "cyr-a">>,
                  <<"n","o">>, << >>, <<"y","e","s"," ">> }

\* a prompt that takes any answer for a yes
ConfirmAction_Always(response) == TRUE

\* confirm_action: input(...).lower() in ['да', 'yes', 'y', 'д']
ConfirmAction(response) == Lower(response) \in Affirmative

\* the arguments of `kill`: --pid or --port (0 for the one not given, which
\* Python's `if` takes like None), --protocol or none, --force, --allow-system
CliPidArgs == Pids \cup {0}
CliPortArgs == {0, 22, 8080}
CliProtocolArgs == {NoName, S_tcp, S_udp}

\* PID 1 with its socket, and under the ordinary PID nothing, a process that
\* may be signalled or one that may not
InitCli ==
    /\ procs \in ProcessTables
    /\ procs[InitPid] = Proc(<<"s","y","s","t","e","m","d">>, 0, "nosignal")
    /\ procs[3] \in {NoProc, Proc(<<"n","o","d","e">>, 1, "full"), Proc(S_sshd, 1, "nosignal")}
    /\ gens = [pid \in Pids |-> 0]
    /\ socks = InitialSocks(procs)
    /\ allow = FALSE
    /\ exited = {}
    /\ Idle

\* what cmd_terminate holds while it runs, before it calls the manager
CliCall(by, pid, port, protocol, force) ==
    [op |-> "kill", by |-> by, pid |-> pid, port |-> port, protocol |-> protocol,
     force |-> force, asked |-> FALSE, response |-> NoName]

\* cmd_terminate up to the prompt, or up to the call of the manager when
\* --force spares the prompt: the manager is built, and for --port the port is
\* looked up and the protection marks of its owners are printed
CmdTerminate(pid, port, protocol, force, allow_system) ==
    /\ pc = "idle"
    /\ pid = 0 \/ port = 0
    /\ allow' = allow_system
    /\ IF pid # 0
       THEN /\ call' = [CliCall("pid", pid, 0, NoName, force) EXCEPT !.asked = ~force]
            /\ pc' = IF force THEN "cli_call" ELSE "confirm"
            /\ ret' = ret
       ELSE IF port # 0
       THEN LET proto == IF protocol = NoName THEN S_tcp ELSE protocol IN
            \E access \in NetAccess, zombie_raises \in BOOLEAN, raised \in BOOLEAN :
            LET ports == FindPortByNumber(port, proto, access, zombie_raises)
                owned == \E i \in DOMAIN ports : ports[i].pid # NoPid
            IN  /\ zombie_raises => \E p \in Pids : procs[p] # NoProc /\ procs[p].st = "zombie"
                /\ raised => owned
                /\ IF ports = << >> \/ raised
                   THEN /\ call' = CliCall("port", 0, port, proto, force)
                        /\ pc' = "done"
                        /\ ret' = IF raised THEN RetRaise("OSError") ELSE ret
                   ELSE /\ call' = [CliCall("port", 0, port, proto, force)
                                       EXCEPT !.asked = ~force]
                        /\ pc' = IF force THEN "cli_call" ELSE "confirm"
                        /\ ret' = ret
       ELSE /\ call' = CliCall("none", 0, 0, NoName, force)
            /\ pc' = "done" /\ ret' = ret
    /\ UNCHANGED <<procs, gens, socks, exited, frame, prot, loop, trace, gui>>

\* the operator answers the prompt of confirm_action, or ends the input
Confirm ==
    /\ pc = "confirm"
    /\ \/ \E response \in ResponseArgs :
            /\ call' = [call EXCEPT !.response = response]
            /\ pc' = IF ConfirmAction(response) THEN "cli_call" ELSE "done"
            /\ ret' = ret
       \/ /\ pc' = "done" /\ ret' = RetRaise("EOFError") /\ call' = call
    /\ UNCHANGED <<procs, gens, socks, allow, exited, frame, prot, loop, trace, gui>>

\* manager.terminate_process_by_pid(args.pid, args.force), or
\* manager.terminate_process_by_port(args.port, protocol, args.force)
CliTerminate ==
    /\ pc = "cli_call"
    /\ IF call.by = "pid"
       THEN /\ call' = [op |-> "byPid", pid |-> call.pid, force |-> call.force,
                        timeout |-> DefaultTimeout, st |-> procs[call.pid].st,
                        exited |-> call.pid \in exited, cli |-> call]
            /\ Enter("byPid", call.pid, call.force, DefaultTimeout, 1, << >>)
            /\ UNCHANGED <<procs, gens, socks, allow, exited, gui>>
       ELSE /\ call' = [op |-> "byPort", port |-> call.port, protocol |-> call.protocol,
                        force |-> call.force, cli |-> call]
            /\ ByPortBody(call.port, call.protocol, call.force)

NextCli ==
    \/ \E pid \in CliPidArgs, port \in CliPortArgs, protocol \in CliProtocolArgs,
          force \in ForceArgs, allow_system \in BOOLEAN :
          CmdTerminate(pid, port, protocol, force, allow_system)
    \/ Confirm
    \/ CliTerminate
    \/ LoopStep
    \/ Reopen
    \/ ReadName
    \/ ProtOpen
    \/ ProtName
    \/ ProtPpid
    \/ Liveness
    \/ Signal
    \/ Wait
    \/ Return
    \/ \E pid \in UserPids : Exit(pid)
    \/ \E pid \in UserPids : Reap(pid)

SpecCli == InitCli /\ [][NextCli]_vars

\* the manager has been called by cmd_terminate
ManagerCalled == call.op \in {"byPid", "byPort"}

\* C22: in the kill command the manager's terminate_process_by_pid or
\* terminate_process_by_port is running or has run without force only after
\* the prompt was shown and answered with one of the accepted answers; with
\* force the prompt is not shown; and as long as the manager has not been
\* called, in particular after an answer that is not accepted, no activation
\* of the manager exists and no OS call, so no signal, has been made.
C22_NoTerminationWithoutConfirmation ==
    /\ ManagerCalled =>
          /\ call.cli.asked = ~call.force
          /\ ~call.force => Lower(call.cli.response) \in Affirmative
    /\ ~ManagerCalled =>
          /\ trace = << >> /\ frame = NoFrame /\ loop = NoLoop /\ prot = NoProt
          /\ ret.kind \in {"none", "raised"}
    /\ SignalEvents # {} => ManagerCalled

\* the operator answered `no` to the prompt of a kill by port of a port that
\* a process which could be signalled holds: the command is over
C22_Witness ==
    /\ pc = "done" /\ call.op = "kill" /\ call.by = "port" /\ call.port = 8080
    /\ call.asked /\ call.response = <<"n","o">>
    /\ procs[3] # NoProc /\ procs[3].acc = "full" /\ procs[3].st = "running"
    /\ trace = << >>

(* ------------------------------ the window ----------------------------- *)
\* the most scans that the window starts
MaxScans == 3

\* a callback waiting in Tk's event queue for the UI thread
Callback(cb, result) == [cb |-> cb, result |-> result]

\* the window right after MainWindow(): nothing scanned, nothing shown,
\* after(1000, initial_scan) pending
NewGui ==
    [open |-> TRUE, ports_data |-> << >>, rows |-> << >>, selection |-> 0,
     btn |-> "normal", queue |-> <<Callback("initial_scan", NoRet)>>,
     threads |-> << >>, started |-> 0]

InitGui ==
    /\ procs = [pid \in Pids |->
                  IF pid = InitPid THEN Proc(<<"s","y","s","t","e","m","d">>, 0, "nosignal")
                  ELSE Proc(<<"n","g","i","n","x">>, 1, "full")]
    /\ gens = [pid \in Pids |-> 0]
    /\ socks = InitialSocks(procs)
    /\ allow = FALSE
    /\ exited = {}
    /\ pc = "idle" /\ call = NoCall /\ frame = NoFrame /\ prot = NoProt
    /\ loop = NoLoop /\ ret = NoRet /\ trace = << >>
    /\ gui = NewGui

\* refresh_ports: the button is disabled and a scan thread is started
RefreshPorts(g, origin) ==
    [g EXCEPT !.btn = "disabled",
              !.threads = Append(@, [id |-> g.started + 1, origin |-> origin,
                                     st |-> "started"]),
              !.started = @ + 1]

\* apply_filters with the filters at their defaults: nothing is redrawn for
\* an empty ports_data, else the table is cleared, and with it the selection,
\* and filled from ports_data
ApplyFilters(g) ==
    IF g.ports_data = << >> THEN g
    ELSE [g EXCEPT !.rows = g.ports_data, !.selection = 0]

\* get_selected_port: the first entry of ports_data with the port and the
\* protocol of the selected row, NoView when there is none
GetSelectedPort(g) ==
    IF g.selection = 0 THEN NoView
    ELSE LET row == g.rows[g.selection]
             hits == {i \in DOMAIN g.ports_data :
                        /\ g.ports_data[i].port = row.port
                        /\ g.ports_data[i].protocol = row.protocol}
         IN  IF hits = {} THEN NoView
             ELSE g.ports_data[CHOOSE i \in hits : \A j \in hits : i <= j]

\* a window that scans again after every outcome
RescanAfter_Always(result) == TRUE

\* `if result.result == TerminationResult.SUCCESS` of on_terminate_complete
RescanAfter(result) == result = "SUCCESS"

\* the scans that callbacks and threads under way may still start
Reserved ==
    Cardinality({i \in DOMAIN gui.queue :
                    gui.queue[i].cb \in {"initial_scan", "on_terminate_complete"}})
    + (IF pc = "idle" THEN 0 ELSE 1)

\* the UI thread runs the next callback of the event queue
Dispatch ==
    /\ gui.open /\ gui.queue # << >>
    /\ LET c == Head(gui.queue)
           g == [gui EXCEPT !.queue = Tail(@)]
       IN  gui' = CASE c.cb = "initial_scan" -> RefreshPorts(g, "initial")
                    [] c.cb = "on_scan_complete" -> ApplyFilters([g EXCEPT !.btn = "normal"])
                    [] c.cb = "on_scan_error" -> [g EXCEPT !.btn = "normal"]
                    [] c.cb = "on_terminate_complete" ->
                          IF RescanAfter(c.result.result) THEN RefreshPorts(g, "kill")
                          ELSE g
                    [] c.cb = "on_terminate_error" -> g
    /\ UNCHANGED <<procs, gens, socks, allow, exited, pc, call, frame, prot, loop, ret,
                   trace>>

\* the user presses the refresh button
ClickRefresh ==
    /\ gui.open /\ gui.btn = "normal"
    /\ gui.started + Reserved < MaxScans
    /\ gui' = RefreshPorts(gui, "button")
    /\ UNCHANGED <<procs, gens, socks, allow, exited, pc, call, frame, prot, loop, ret,
                   trace>>

\* the user selects a row of the table
SelectRow(i) ==
    /\ gui.open /\ i \in DOMAIN gui.rows /\ gui.selection # i
    /\ gui' = [gui EXCEPT !.selection = i]
    /\ UNCHANGED <<procs, gens, socks, allow, exited, pc, call, frame, prot, loop, ret,
                   trace>>

\* _terminate_process up to the start of terminate_thread: the selected
\* port, its PID, the answer to askyesno; one terminate_thread at a time
TerminateProcess(force, yes) ==
    /\ gui.open /\ pc = "idle"
    /\ gui.started + Reserved < MaxScans
    /\ LET port == GetSelectedPort(gui) IN
       /\ port # NoView /\ port.pid # NoPid /\ yes
       /\ pc' = "thread"
       /\ call' = [op |-> "terminate_thread", pid |-> port.pid, force |-> force,
                   row |-> gui.rows[gui.selection]]
    /\ UNCHANGED <<procs, gens, socks, allow, exited, frame, prot, loop, ret, trace, gui>>

\* terminate_thread: ProcessManager().terminate_process_by_pid(port.pid, force)
TerminateThreadCall ==
    /\ pc = "thread"
    /\ call' = [op |-> "byPid", pid |-> call.pid, force |-> call.force,
                timeout |-> DefaultTimeout, st |-> procs[call.pid].st,
                exited |-> call.pid \in exited, row |-> call.row]
    /\ Enter("byPid", call.pid, call.force, DefaultTimeout, 1, << >>)
    /\ UNCHANGED <<procs, gens, socks, allow, exited, gui>>

\* terminate_thread: self.after(0, lambda: self.on_terminate_complete(result))
TerminateThreadPost ==
    /\ pc = "done" /\ ret.kind = "info"
    /\ gui' = [gui EXCEPT !.queue = Append(@, Callback("on_terminate_complete", ret.info))]
    /\ pc' = "idle" /\ call' = NoCall /\ frame' = NoFrame /\ prot' = NoProt
    /\ loop' = NoLoop /\ ret' = NoRet /\ trace' = << >>
    /\ UNCHANGED <<procs, gens, socks, allow, exited>>

\* scan_thread: self.ports_data = PortScanner().scan_all_ports(), or an
\* exception of it
ScanThreadRun(k) ==
    /\ k \in DOMAIN gui.threads /\ gui.threads[k].st = "started"
    /\ \E access \in {"inet", "denied"}, failed \in BOOLEAN :
        gui' = IF failed THEN [gui EXCEPT !.threads[k].st = "failed"]
               ELSE [gui EXCEPT !.threads[k].st = "scanned",
                                !.ports_data = ScanAllPorts(access, FALSE)]
    /\ UNCHANGED <<procs, gens, socks, allow, exited, pc, call, frame, prot, loop, ret,
                   trace>>

\* scan_thread: self.after(0, self.on_scan_complete), or on_scan_error
ScanThreadPost(k) ==
    /\ k \in DOMAIN gui.threads /\ gui.threads[k].st # "started"
    /\ gui' = [gui EXCEPT
                 !.queue = Append(@, Callback(IF gui.threads[k].st = "scanned"
                                              THEN "on_scan_complete"
                                              ELSE "on_scan_error", NoRet)),
                 !.threads = SubSeq(@, 1, k - 1) \o SubSeq(@, k + 1, Len(@))]
    /\ UNCHANGED <<procs, gens, socks, allow, exited, pc, call, frame, prot, loop, ret,
                   trace>>

NextGui ==
    \/ Dispatch
    \/ ClickRefresh
    \/ \E i \in 1..MaxSocks : SelectRow(i)
    \/ \E force \in ForceArgs, yes \in BOOLEAN : TerminateProcess(force, yes)
    \/ TerminateThreadCall
    \/ TerminateThreadPost
    \/ \E k \in 1..MaxScans : ScanThreadRun(k)
    \/ \E k \in 1..MaxScans : ScanThreadPost(k)
    \/ Reopen
    \/ ReadName
    \/ ProtOpen
    \/ ProtName
    \/ ProtPpid
    \/ Liveness
    \/ Signal
    \/ Wait
    \/ \E pid \in UserPids : Exit(pid)
    \/ \E pid \in UserPids : Reap(pid)

SpecGui == InitGui /\ [][NextGui]_vars

\* the UI thread takes a callback from the event queue
Dispatched == Len(gui'.queue) = Len(gui.queue) - 1
\* the scan threads started in the step
NewThreads == gui'.started - gui.started

\* C23: a kill of the window runs terminate_process_by_pid in a thread of
\* its own: while the call runs the window's state is not touched by it, and
\* when it has returned its outcome is put, unchanged, into the event queue
\* of the UI thread as on_terminate_complete; the UI thread, when it runs
\* that callback, starts one scan if the outcome is SUCCESS and none
\* otherwise, and a scan begun because of a kill exists only then.
C23_KillInThreadThenRescanIffSuccess ==
    [][/\ EngineStep \/ TerminateThreadCall => UNCHANGED gui
       /\ pc = "done" /\ pc' = "idle" =>
             /\ gui'.queue = Append(gui.queue,
                                    Callback("on_terminate_complete", ret.info))
             /\ NewThreads = 0
       /\ Dispatched /\ Head(gui.queue).cb = "on_terminate_complete" =>
             /\ Head(gui.queue).result.result = "SUCCESS" => NewThreads = 1
             /\ Head(gui.queue).result.result # "SUCCESS" => NewThreads = 0
             /\ NewThreads = 1 => gui'.threads[Len(gui'.threads)].origin = "kill"
       /\ \A k \in DOMAIN gui'.threads :
             gui'.threads[k].origin = "kill" /\ NewThreads = 1
             /\ gui'.threads[k].id = gui'.started
             => Dispatched /\ Head(gui.queue).cb = "on_terminate_complete"
                /\ Head(gui.queue).result.result = "SUCCESS"]_vars

\* the process of the selected row was killed and the scan begun by the
\* SUCCESS callback is under way
C23_Witness ==
    /\ gui.open /\ procs[3] = NoProc /\ 3 \in exited
    /\ \E k \in DOMAIN gui.threads : gui.threads[k].origin = "kill"

(* -------------------- properties of the protection policy -------------- *)
\* is_process_protected has returned a verdict
PolicyDone == call.op = "isProtected" /\ pc = "done" /\ ret.kind = "bool"
\* the reads of the finished is_process_protected, and those that failed
PolicyReads == {i \in DOMAIN trace : trace[i].op \in {"p.Process", "p.name", "p.ppid"}}
FailedReads == {i \in PolicyReads : trace[i].res # "ok"}
\* the process that the call opened is still the one the PID names
SameAsOpened == procs[call.pid] # NoProc /\ gens[call.pid] = prot.gen

C25_FailsClosedAtEveryLookup ==
    (PolicyDone /\ \E i \in FailedReads :
                      trace[i].res \in {"NoSuchProcess", "AccessDenied"})
        => ret.val = TRUE

(* ---------------- properties of one attempt and its order -------------- *)
\* the events of attempt d of the running terminate_process_by_pid
Attempt(d) == {i \in DOMAIN trace : trace[i].d = d}
\* event i has an event of operation op with result res before it in its attempt
Preceded(i, op, res) ==
    \E j \in Attempt(trace[i].d) :
        j < i /\ trace[j].op = op /\ trace[j].res = res
\* the last OS call that the call has made
LastEv == trace[Len(trace)]
\* attempt d runs with force=True: asked for by the caller, or the escalation
Forced(d) == call.force \/ d = 2

\* C26: in every attempt of terminate_process_by_pid the verdict of the
\* protection check comes after the name was read, the liveness check after
\* a verdict `not protected`, and a signal call after a liveness check that
\* found the process running; a liveness check that finds it not running is
\* the last OS call of the call, which then returns ALREADY_TERMINATED, the
\* attempt having made no signal call (and the call none at all unless an
\* earlier graceful attempt timed out); ALREADY_TERMINATED is returned in no
\* other way.
C26_NameProtectionLivenessSignal ==
    call.op = "byPid" =>
        /\ \A i \in DOMAIN trace :
              /\ trace[i].op = "is_process_protected" => Preceded(i, "name", "ok")
              /\ trace[i].op = "is_running" => Preceded(i, "is_process_protected", "False")
              /\ trace[i].op \in Signals => Preceded(i, "is_running", "True")
              /\ (trace[i].op = "is_running" /\ trace[i].res = "False") =>
                    /\ i = Len(trace) /\ pc = "done"
                    /\ ret.info.result = "ALREADY_TERMINATED"
                    /\ SignalEvents \cap Attempt(trace[i].d) = {}
                    /\ trace[i].d = 1 => SignalEvents = {}
        /\ (pc = "done" /\ ret.info.result = "ALREADY_TERMINATED") =>
              LastEv.op = "is_running" /\ LastEv.res = "False"

\* the process left between psutil.Process(pid) and is_running(): the call
\* passed the protection check and returned ALREADY_TERMINATED without a signal
C26_Witness ==
    /\ ByPidDone /\ ret.info.result = "ALREADY_TERMINATED"
    /\ \E i \in DOMAIN trace : trace[i].op = "is_process_protected" /\ trace[i].res = "False"
    /\ SignalEvents = {}

\* C27: when a signal call (terminate or kill) or the wait of
\* terminate_process_by_pid raises AccessDenied, in the first attempt or in
\* the escalated one, that is the last OS call of the call and the call
\* returns ACCESS_DENIED.
C27_DeniedTerminationIsAccessDenied ==
    call.op = "byPid" =>
        \A i \in DOMAIN trace :
            (trace[i].op \in Signals \cup {"wait"} /\ trace[i].res = "AccessDenied") =>
                /\ i = Len(trace) /\ pc = "done"
                /\ ret.kind = "info" /\ ret.info.result = "ACCESS_DENIED"

\* the kill of the escalated attempt was denied
C27_Witness ==
    /\ ByPidDone /\ ret.info.result = "ACCESS_DENIED"
    /\ LastEv.op = "SIGKILL" /\ LastEv.res = "AccessDenied" /\ LastEv.d = 2

\* C28: an attempt that runs with force=True makes no terminate call, and
\* after its wait timed out no further attempt is made: the call returns
\* TIMEOUT; and TIMEOUT is returned only so, after the kill of that attempt
\* was sent and its wait timed out.
C28_ForcedAttemptKillsAndTimesOut ==
    call.op = "byPid" =>
        /\ \A i \in SignalEvents : Forced(trace[i].d) => trace[i].op = "SIGKILL"
        /\ \A i \in DOMAIN trace :
              (/\ trace[i].op = "wait" /\ trace[i].res = "TimeoutExpired"
               /\ Forced(trace[i].d)) =>
                  /\ i = Len(trace) /\ pc = "done"
                  /\ ret.info.result = "TIMEOUT"
        /\ (pc = "done" /\ ret.info.result = "TIMEOUT") =>
              /\ LastEv.op = "wait" /\ LastEv.res = "TimeoutExpired" /\ Forced(LastEv.d)
              /\ \E i \in SentSignals \cap Attempt(LastEv.d) : trace[i].op = "SIGKILL"

\* a call with force=True whose wait timed out
C28_Witness ==
    /\ ByPidDone /\ call.force /\ ret.info.result = "TIMEOUT"
    /\ Attempt(2) = {}
    /\ \E i \in SentSignals : trace[i].op = "SIGKILL"

(* ------------------- the timeout given to each attempt ----------------- *)
\* the largest timeout, besides the default, that a caller passes
MaxTimeout == 5

\* timeout: int of terminate_process_by_pid, not negative
BudgetArgs == 0..MaxTimeout \cup {DefaultTimeout}

\* PID 1 and a process that may be signalled, both bound to port 8080
InitBudget ==
    /\ procs = [pid \in Pids |->
                  IF pid = InitPid THEN Proc(<<"s","y","s","t","e","m","d">>, 0, "nosignal")
                  ELSE Proc(<<"n","o","d","e">>, 1, "full")]
    /\ gens = [pid \in Pids |-> 0]
    /\ socks = InitialSocks(procs)
    /\ allow = FALSE
    /\ exited = {}
    /\ Idle

\* terminate_process_by_pid with any timeout, and terminate_process_by_port,
\* which passes none
NextBudget ==
    \/ \E pid \in UserPids, force \in ForceArgs, timeout \in BudgetArgs :
          StartByPid(pid, force, timeout)
    \/ \E force \in ForceArgs : StartByPort(8080, S_tcp, force)
    \/ LoopStep
    \/ Reopen
    \/ ReadName
    \/ ProtOpen
    \/ ProtName
    \/ ProtPpid
    \/ Liveness
    \/ Signal
    \/ Wait
    \/ Return
    \/ \E pid \in UserPids : Exit(pid)
    \/ \E pid \in UserPids : Reap(pid)

SpecBudget == InitBudget /\ [][NextBudget]_vars

\* the timeout that the caller of the running operation gave, or left to
\* the default
GivenTimeout == IF call.op = "byPid" THEN call.timeout ELSE DefaultTimeout

\* C29: the first attempt of terminate_process_by_pid runs, and waits, with
\* the timeout it was given, and the escalated attempt with the largest
\* integer not above half of it, for every timeout from 0 on; the default 10
\* gives 5, and every attempt begun by terminate_process_by_port has 10, its
\* escalation 5.
C29_EscalatedBudgetIsHalf ==
    (call.op \in {"byPid", "byPort"} /\ frame # NoFrame) =>
        /\ frame.d \in {1, 2}
        /\ frame.d = 1 => frame.timeout = GivenTimeout
        /\ frame.d = 2 =>
              /\ 2 * frame.timeout <= GivenTimeout
              /\ GivenTimeout <= 2 * frame.timeout + 1
              /\ GivenTimeout = DefaultTimeout => frame.timeout = 5
        /\ call.op = "byPort" => frame.timeout = IF frame.d = 1 THEN 10 ELSE 5

\* the escalated attempt of a call that was given 3 waits with 1
C29_Witness ==
    /\ pc = "wait" /\ frame.d = 2
    /\ call.op = "byPid" /\ call.timeout = 3 /\ frame.timeout = 1

\* the outcome kind that the last OS call of an attempt leads to
OutcomeOf(e) ==
    CASE e.op = "wait" /\ e.res = "exited" -> "SUCCESS"
      [] e.op = "wait" /\ e.res = "TimeoutExpired" -> "TIMEOUT"
      [] e.op = "is_running" /\ e.res = "False" -> "ALREADY_TERMINATED"
      [] e.op = "is_process_protected" /\ e.res = "True" -> "SYSTEM_PROCESS"
      [] OTHER -> IF e.res \in {"NoSuchProcess", "ZombieProcess"} THEN "NOT_FOUND"
                  ELSE IF e.res = "AccessDenied" THEN "ACCESS_DENIED"
                  ELSE "ERROR"

\* C30: the value that terminate_process_by_pid returns when its last attempt
\* ran with force=True is determined by the OS calls of that attempt alone,
\* in the same way whether the attempt is the escalation of a graceful one or
\* the whole of a forced call: its kind is the one the attempt's last OS call
\* leads to, a SUCCESS names SIGKILL and has for duration the time from the
\* start of that attempt (here its number of OS calls), every other kind names
\* no signal and has duration 0; the value has no other field than pid, name,
\* result, message and duration, and SIGTERM appears nowhere in it.
C30_OutcomeIsTheForcedAttemptsAlone ==
    (ByPidDone /\ Forced(LastEv.d)) =>
        LET last == Attempt(LastEv.d) IN
        /\ DOMAIN ret.info = {"pid", "name", "result", "signal_used", "duration"}
        /\ ret.info.pid = call.pid
        /\ ret.info.result = OutcomeOf(LastEv)
        /\ ret.info.signal_used = IF ret.info.result = "SUCCESS" THEN "SIGKILL" ELSE "none"
        /\ ret.info.duration = IF ret.info.result = "SUCCESS" THEN Cardinality(last) ELSE 0

\* an escalated call returned SUCCESS by SIGKILL with the duration of its
\* second attempt, shorter than the call
C30_Witness ==
    /\ ByPidDone /\ Escalated /\ ~call.force
    /\ ret.info.result = "SUCCESS" /\ ret.info.signal_used = "SIGKILL"
    /\ \E i \in SentSignals : trace[i].op = "SIGTERM"
    /\ ret.info.duration = Cardinality(Attempt(2))
    /\ ret.info.duration < Len(trace)

(* ------------- the three operations of one ProcessManager -------------- *)
\* a policy that answers from the verdict it gave before
UseCache_Hit(previous) == previous.kind = "bool"

\* is_process_protected looks up no earlier verdict: its first statement is
\* psutil.Process(pid), and a ProcessManager has no field to keep one in
UseCache(previous) == FALSE

\* is_process_protected(pid) called again by a caller that still holds the
\* verdict of the call before it, for the same PID; call keeps that verdict
IsProtectedAgain(pid) ==
    /\ pc = "done" /\ call.op = "isProtected" /\ call.pid = pid /\ ret.kind = "bool"
    /\ call' = [op |-> "isProtected", pid |-> pid, st |-> procs[pid].st, before |-> ret]
    /\ IF UseCache(ret)
       THEN UNCHANGED <<pc, ret, prot, frame, loop>> /\ trace' = << >>
       ELSE ProtEnter("isProtected", pid, 0, << >>)
    /\ UNCHANGED <<procs, gens, socks, allow, exited, gui>>

\* a ProcessManager of either construction; PID 1 runs, and under the
\* ordinary PID nothing, a server bound to port 8080 or a kernel worker
InitEngine ==
    /\ procs \in ProcessTables
    /\ procs[InitPid] = Proc(<<"s","y","s","t","e","m","d">>, 0, "nosignal")
    /\ procs[3] \in {NoProc, Proc(<<"n","o","d","e">>, 1, "full"),
                     Proc(<<"k","w","o","r","k","e","r">>, KthreaddPid, "full")}
    /\ gens = [pid \in Pids |-> 0]
    /\ socks = InitialSocks(procs)
    /\ allow \in BOOLEAN
    /\ exited = {}
    /\ Idle

NextEngine ==
    \/ \E pid \in Pids : StartIsProtected(pid)
    \/ \E pid \in Pids : IsProtectedAgain(pid)
    \/ \E pid \in Pids : StartByPid(pid, FALSE, DefaultTimeout)
    \/ \E port \in {22, 8080} : StartByPort(port, S_tcp, FALSE)
    \/ LoopStep
    \/ Reopen
    \/ ReadName
    \/ ProtOpen
    \/ ProtName
    \/ ProtPpid
    \/ Liveness
    \/ Signal
    \/ Wait
    \/ Return
    \/ \E pid \in UserPids : Exit(pid)
    \/ \E pid \in UserPids : Reap(pid)
    \/ \E pid \in UserPids, prof \in {q \in Profiles : q.name = <<"n","o","d","e">>} :
          Spawn(pid, prof)

SpecEngine == InitEngine /\ [][NextEngine]_vars

\* what the three rules give for the PID on the process table of the state
RulesNow(pid) ==
    \/ pid = InitPid
    \/ \E e \in PROTECTED_PROCESSES : Contains(Lower(procs[pid].name), e)
    \/ procs[pid].ppid = KthreaddPid
\* a finished is_process_protected has read the OS itself, and when all its
\* reads succeeded on a process not replaced meanwhile its verdict is the one
\* of the rules on the table of now
VerdictIsOfNow ==
    PolicyDone =>
        /\ trace # << >> /\ trace[1].op = "p.Process"
        /\ (FailedReads = {} /\ SameAsOpened) => (ret.val <=> RulesNow(call.pid))

\* C31: no step of is_process_protected, terminate_process_by_pid or
\* terminate_process_by_port, in any sequence of calls, changes
\* allow_system_ports (PROTECTED_PROCESSES and SYSTEM_PORTS are constants
\* that nothing assigns); and every is_process_protected call, also one made
\* by a caller that holds an earlier verdict for the same PID, opens the
\* process anew and, its reads succeeding, returns what the rules give on
\* the process table of the time of the call: the same as before when the
\* table is the same, the new value when the process exited or the PID was
\* given to another process.
C31_NoEngineStateAndNoCachedVerdict ==
    [][allow' = allow /\ VerdictIsOfNow']_vars

\* is_process_protected(3) answered True for a kernel worker; the worker
\* exited, the PID went to a server, and the call made again answers False
C31_Witness ==
    /\ PolicyDone /\ call.pid = 3 /\ "before" \in DOMAIN call
    /\ call.before.val = TRUE /\ ret.val = FALSE
    /\ gens[3] = 1 /\ FailedReads = {} /\ SameAsOpened

(* ------------------- the checks before every signal -------------------- *)
\* the events of attempt d that are a check which stops the attempt
Stopping(d) ==
    {j \in Attempt(d) :
        \/ trace[j].op = "is_process_protected" /\ trace[j].res = "True"
        \/ trace[j].op = "is_running" /\ trace[j].res = "False"}

C33_ProtectedOnlyForAnInspectedProcess ==
    (ByPidDone /\ ret.info.result = "SYSTEM_PROCESS") =>
        \A i \in DOMAIN trace :
            trace[i].op \in {"p.Process", "p.name"} =>
                trace[i].res \notin {"NoSuchProcess", "ZombieProcess", "AccessDenied"}

(* ---------------------- the PID that a kill is given ------------------- *)
\* C34: the PID that a kill of the window passes to
\* terminate_process_by_pid is the PID shown in the row that the user
\* selected, also when several rows have the same port and protocol and when
\* a scan thread has replaced ports_data since the table was drawn.
C34_KillTakesThePidOfTheSelectedRow ==
    call.op \in {"terminate_thread", "byPid"} => call.pid = call.row.pid

(* --------------------------- scans in flight --------------------------- *)
\* no scan thread runs and no callback of a scan waits for the UI thread
ScansSettled ==
    /\ gui.threads = << >>
    /\ \A i \in DOMAIN gui.queue :
          gui.queue[i].cb \notin {"initial_scan", "on_scan_complete", "on_scan_error"}

\* C35: in the window at most one scan thread exists at any time, whichever
\* of the refresh button, initial_scan and the re-scan after a successful
\* kill started it, and once every scan that was started has completed and
\* its callback has run, the table shows what ports_data holds.
C35_OneScanAtATimeAndTableIsTheData ==
    gui.open =>
        /\ Len(gui.threads) <= 1
        /\ (gui.started > 0 /\ ScansSettled) => gui.rows = gui.ports_data

====
